---- MODULE Spec2Model ----
(***************************************************************************)
(* A model of the Morrigan server runtime:                                 *)
(*   - the lifecycle supervisor and component host  (src/server.js),       *)
(*   - the token service                 (src/modules/TokenGenerator.js),  *)
(*   - the session manager               (src/modules/APICore.js),         *)
(*   - the identity service (src/modules/APICore.js, src/modules/auth.js), *)
(*   - the agent registry (src/modules/providers/core/client/module.js).   *)
(*                                                                         *)
(* JavaScript runs every piece of code between two awaits to completion,   *)
(* so one action of the model is one such piece: the invocation of an      *)
(* async function up to its first await, or the continuation of one await  *)
(* up to the next.  A data store call that the code does not await is a    *)
(* write in flight: it is applied by an action of its own, at any later    *)
(* time.                                                                   *)
(***************************************************************************)
EXTENDS Integers, Sequences, FiniteSets, Bags, TLC

(***************************************************************************)
(* Bounds of the model.                                                    *)
(***************************************************************************)
\* number of setup()/start()/stop() calls that may be in progress at once
MaxCalls == 2
\* number of start() calls made on the instance (setup() and stop() calls are
\* not limited)
MaxStarts == 2
\* number of reporter writes that may be in flight at once
MaxTickWrites == 1
\* number of newToken() calls made on the generator
MaxTokens == 2
\* highest key pair number the rotation interval generates
MaxKeys == 2
\* number of websocket connections made to the servers
MaxConnections == 2
\* number of heartbeat ticks of a connection counted since its last pong
MaxMissed == 2
\* number of messages the server sends on one connection
MaxSent == 3

(***************************************************************************)
(* serverStates, src/server.js:41-52                                       *)
(***************************************************************************)
ERROR == -1
INSTANCED == 0
INITIALIZING == 1
INITIALIZED == 2
STARTING == 3
STARTING_CONNECTED == 4
STARTED == 5
READY == 6
STOPPING == 7
STOPPED == 8

ServerStates == ERROR..STOPPED

\* The components of the test configuration, in the order of the settings
\* object: the landmine (both hooks are plain functions that throw) and the
\* well-behaved test component (both hooks are async functions).
ComponentOrder == <<"errorComponent", "testComponent">>

Components == {ComponentOrder[i] : i \in 1..Len(ComponentOrder)}

HookNames == {"setup", "onShutdown"}

\* typeof component.module[hookName] === 'function'
HasHook(comp, hook) == comp \in Components /\ hook \in HookNames

\* What calling a hook ends in: the hooks of the landmine throw, those of
\* the test component return.
HookOutcome(comp, hook) ==
    IF comp = "errorComponent" THEN "rejected" ELSE "resolved"


\* number of uuidv4() values the identity service draws
MaxUuids == 5
\* number of addIdentity()/setIdentity()/removeIdentity()/setup() calls made
MaxIdentityOps == 3
\* number of identity service calls that may be in progress at once
MaxIdentityCalls == 2
\* number of registry calls that may be in progress at once
MaxAgentCalls == 2
\* number of frames the agents send
MaxFrames == 2
VARIABLES
    \* ---- lifecycle supervisor (class Morrigan) ----
    state,          \* this._state
    fired,          \* the events _emitEvent fired in the latest step
    error,          \* this.error
    dbConfigured,   \* settings.database and its connectionString are given
    landmineAsync,  \* the landmine's hooks are async functions, not plain ones
    calls,          \* the bag of setup()/start()/stop() calls in progress
    starts,         \* number of start() calls made so far
    serverObj,      \* this.server: 0, or the id of the http server object
    bound,          \* the http server object that holds the port, or 0
    errors,         \* this._errors[component][hook]: number of errors kept
    hookCalls,      \* number of times each component hook was called
    records,        \* the serverRecord objects built by start()
    serverRecord,   \* this._serverRecord: 0, or the id of a record
    timers,         \* the active setInterval timers of the reporter
    updateInterval, \* this._updateInterval: 0, or the id of a timer
    row,            \* the document of this server in morrigan.instances
    tickWrites,     \* replaceOne calls of the reporter still in flight
    readyCount,     \* number of times the state became READY
    lateStart,      \* start() was called at STARTING or later, or during another start()
    lastStop,       \* the stop() that returned in the latest step, if one did
    last,           \* how the latest step received a call, if it was a call
    \* ---- token service (class TokenGenerator) ----
    tokenCollection,   \* this.tokenCollection: the documents in natural order
    publicKey,         \* this.publicKey / this.privateKey: number of the key pair
    keyUpdateInterval, \* this.keyUpdateInterval: "none", "active" or "cleared"
    nextToken,         \* number of newToken() calls made so far (uuidv4 source)
    newTokenCalls,     \* newToken() calls waiting for their findOne
    tokenWrites,       \* replaceOne/insertOne calls of newToken() in flight
    tokens,            \* the tokens returned so far, in order of return
    expired,           \* ids of the tokens whose expiry time has passed
    verified,          \* what verifyToken() returned in the latest step
    \* ---- session manager (connection provider) ----
    connectionRecords, \* the documents of the connections collection
    nextConnection,    \* number of websocket connections accepted so far
    connects,          \* ep_wsConnect calls in progress
    sockets,           \* ids registered in the sockets map
    openSockets,       \* ids of the sockets with readyState 1
    heartbeats,        \* ids whose heartbeat interval is active
    cleanups,          \* cleanup() calls waiting for their findOne
    connectionWrites,  \* insertOne/deleteOne/replaceOne calls in flight
    rejected,          \* ids of the connections whose token failed verification
    duplicates,        \* ids of the connections given up for a live record
    sent,              \* the messages the server sent on each connection
    missed,            \* heartbeat ticks of each connection since its last pong
    owner,             \* the server each connection was made to
    down,              \* each server process: "up", "stopped" or "crashed"
    sendResult,        \* what the latest send() call returned, and to whom
    \* ---- identity service (APIAuth) ----
    identityRecords,       \* the documents of the identities collection
    authenticationRecords, \* the documents of the authentication collection
    identityWrites,        \* insertOne calls of addIdentity() in flight
    identityCalls,         \* setIdentity()/removeIdentity()/setup() calls in progress
    nextUuid,              \* number of uuidv4() values drawn so far
    authModule,            \* the module serving the identity API: "APICore" or "auth"
    identityOps,           \* number of identity service calls made so far
    overlap,               \* a call was made while another call was in progress
    response,              \* what the latest /identity request was answered
    removed,               \* ids of the identities whose removeIdentity() returned
    \* ---- agent registry (client provider) ----
    clientRecords,     \* the documents of the clients collection
    clientWrites,      \* replaceOne calls of provisionClient() in flight
    agentCalls,        \* provisionClient/deprovisionClient/verifyToken calls in progress
    provisioned,       \* the provisionClient() calls that returned, in order
    registryVerified,  \* what the registry's verifyToken() returned in the latest step
    racing,            \* a registry call was made while a call or a write was pending
    \* ---- message routing of the sessions (ws.on('message')) ----
    frames,            \* number of frames received so far
    lastFrame,         \* the latest frame: its session, its kind, what became of it
    pending,           \* asynchronous message handlers waiting for the data store
    applied,           \* the frames whose handler wrote to the socket, in that order
    clientOf,          \* record.clientId held by the listeners of each connection
    clientState        \* the state field of each agent's stored record

lifeVars == <<state, fired, error, dbConfigured, landmineAsync, calls, starts, serverObj,
              bound, errors, hookCalls, records, serverRecord, timers,
              updateInterval, row, tickWrites, readyCount, lateStart, lastStop, last>>

serverVars == <<serverObj, bound>>

hookVars == <<errors, hookCalls>>

reportVars == <<records, serverRecord, timers, updateInterval, row, tickWrites>>

tokenVars == <<tokenCollection, publicKey, keyUpdateInterval, nextToken,
               newTokenCalls, tokenWrites, tokens, expired, verified>>

sessionVars == <<connectionRecords, nextConnection, connects, sockets,
                 openSockets, heartbeats, cleanups, connectionWrites, rejected,
                 duplicates, sent, missed, owner, down, sendResult>>

identityVars == <<identityRecords, authenticationRecords, identityWrites,
                  identityCalls, nextUuid, authModule, identityOps, overlap,
                  response, removed>>

agentVars == <<clientRecords, clientWrites, agentCalls, provisioned,
               registryVerified, racing>>

frameVars == <<frames, lastFrame, pending, applied, clientOf, clientState>>

vars == <<lifeVars, tokenVars, sessionVars, identityVars, agentVars, frameVars>>

(***************************************************************************)
(* The lifecycle supervisor, src/server.js                                 *)
(***************************************************************************)
NoHooks == [k \in Components |-> "none"]

IdleCall == [kind |-> "none", pc |-> "idle", reason |-> "none", srv |-> 0,
             id |-> 0, idx |-> 0, hooks |-> NoHooks, flag |-> FALSE]

NoRow == [exists |-> FALSE, live |-> FALSE, reason |-> "none"]

NoStop == [reason |-> "none", written |-> FALSE]

\* serverRecord = { id, components, state, live: true, checkInTime }
FreshRecord == [exists |-> TRUE, live |-> TRUE, reason |-> "none"]

EventName(s) ==
    CASE s = ERROR -> "error"
      [] s = INITIALIZING -> "initializing"
      [] s = INITIALIZED -> "initialized"
      [] s = STARTING -> "starting"
      [] s = STARTING_CONNECTED -> "starting_connected"
      [] s = STARTED -> "started"
      [] s = READY -> "ready"
      [] s = STOPPING -> "stopping"
      [] s = STOPPED -> "stopped"
      [] OTHER -> "none"

\* The calls in progress.
Calls == BagToSet(calls)

\* One more call may be made.
Free == BagCardinality(calls) < MaxCalls

\* The bag of calls with call c replaced by its next form; a call that has
\* returned (IdleCall) leaves the bag.
Bagged(rec) == IF rec = IdleCall THEN EmptyBag ELSE SetToBag({rec})

Put(c, rec) == (calls (-) SetToBag({c})) (+) Bagged(rec)

\* Continuations that are already queued as microtasks run before any timer,
\* I/O callback or new call.
MicrotaskPcs == {"initResolved", "listenRejected"}

NoMicrotask == \A c \in Calls : c.pc \notin MicrotaskPcs

StartInProgress == \E c \in Calls : c.kind = "start"

SetupGuardNoUpperCheck(s) == s # INITIALIZING

\* setup(): the two checks that reject the call
SetupGuard(s) == ~(s >= INITIALIZED) /\ s # INITIALIZING

\* setup() called directly, up to `await StateStore(stateDir)`
SetupInvoke ==
    /\ NoMicrotask
    /\ SetupGuard(state) => Free
    /\ IF SetupGuard(state)
       THEN /\ state' = INITIALIZING
            /\ fired' = <<"initializing">>
            /\ last' = "setup"
            /\ calls' = calls (+) SetToBag({[IdleCall EXCEPT !.kind = "setup",
                                                              !.pc = "setupStore"]})
       ELSE \* throw "Call to .setup rejected: ..."
            /\ state' = state
            /\ fired' = <<>>
            /\ last' = "setupRejected"
            /\ calls' = calls
    /\ UNCHANGED <<error, dbConfigured, landmineAsync, starts, serverVars, hookVars,
                   reportVars, readyCount, lateStart>>
    /\ lastStop' = NoStop

\* The rest of setup(), after the state store and the server info were read:
\* the http server is created and the state becomes INITIALIZED; or a
\* certificate file is missing and setup() returns; or the state store
\* cannot be opened and setup() throws (start() catches that).
\* The handler start() registered for 'initialized' resolves its promise.
Resolved(d) == IF d.pc = "waitInit" THEN [d EXCEPT !.pc = "initResolved"] ELSE d

SetupStore(c) ==
    /\ c.pc = "setupStore" /\ NoMicrotask
    /\ \E outcome \in {"ok", "certMissing", "storeFail"} :
         CASE outcome = "ok" ->
                /\ serverObj' = serverObj + 1
                /\ state' = INITIALIZED
                /\ fired' = <<"initialized">>
                /\ error' = error
                /\ calls' = BagOfAll(Resolved, calls (-) SetToBag({c}))
                              (+) Bagged(IF c.kind = "start"
                                         THEN [c EXCEPT !.pc = "initResolved"]
                                         ELSE IdleCall)
           [] outcome = "certMissing" ->
                /\ UNCHANGED <<serverObj, state, error>>
                /\ fired' = <<>>
                /\ calls' = Put(c, IF c.kind = "start"
                                      THEN [c EXCEPT !.pc = "initResolved"]
                                      ELSE IdleCall)
           [] outcome = "storeFail" ->
                /\ serverObj' = serverObj
                /\ fired' = <<>>
                /\ calls' = Put(c, IdleCall)
                /\ IF c.kind = "start"
                   THEN state' = ERROR /\ error' = "setup"
                   ELSE UNCHANGED <<state, error>>
    /\ last' = "other"
    /\ UNCHANGED <<dbConfigured, landmineAsync, starts, bound, hookVars, reportVars,
                   readyCount, lateStart>>
    /\ lastStop' = NoStop

\* start() from `const server = this.server` to `await DataStore(...)`
StartBody(others, rec) ==
    /\ state' = STARTING
    /\ fired' = <<"starting">>
    /\ calls' = others (+) Bagged(IF dbConfigured
                                  THEN [rec EXCEPT !.pc = "connect", !.srv = serverObj]
                                  ELSE IdleCall)

\* start(), up to its first await
StartInvoke ==
    /\ Free /\ NoMicrotask
    /\ starts < MaxStarts
    /\ starts' = starts + 1
    /\ lateStart' = (lateStart \/ state >= STARTING
                       \/ StartInProgress)
    /\ last' = "start"
    /\ LET rec == [IdleCall EXCEPT !.kind = "start"]
       IN  IF state < INITIALIZED
           THEN IF state = INITIALIZING
                THEN /\ calls' = calls (+) SetToBag({[rec EXCEPT !.pc = "waitInit"]})
                     /\ state' = state
                     /\ fired' = <<>>
                ELSE \* this.setup(), whose checks pass in this state
                     /\ state' = INITIALIZING
                     /\ fired' = <<"initializing">>
                     /\ calls' = calls (+) SetToBag({[rec EXCEPT !.pc = "setupStore"]})
           ELSE StartBody(calls, rec)
    /\ UNCHANGED <<error, dbConfigured, landmineAsync, serverVars, hookVars, reportVars,
                   readyCount>>
    /\ lastStop' = NoStop

\* start() resumes after the 'initialized' event or after its own setup()
StartProceed(c) ==
    /\ c.pc = "initResolved"
    /\ StartBody(calls (-) SetToBag({c}), c)
    /\ last' = "other"
    /\ UNCHANGED <<error, dbConfigured, landmineAsync, starts, serverVars, hookVars,
                   reportVars, readyCount, lateStart>>
    /\ lastStop' = NoStop

\* The data store answers: connected (then server.listen is called) or not.
StartConnect(c) ==
    /\ c.pc = "connect" /\ NoMicrotask
    /\ \E outcome \in {"ok", "fail"} :
         IF outcome = "fail"
         THEN /\ state' = ERROR
              /\ fired' = <<"error">>
              /\ error' = "db"
              /\ bound' = bound
              /\ calls' = Put(c, IdleCall)
         ELSE /\ state' = STARTING_CONNECTED
              /\ fired' = <<"starting_connected">>
              /\ error' = error
              /\ LET srv == c.srv
                 IN  CASE srv = 0 \/ bound = srv ->
                            \* server is null, or it is listening already:
                            \* listen throws inside the promise executor
                            /\ bound' = bound
                            /\ calls' = Put(c, [c EXCEPT !.pc = "listenRejected"])
                       [] srv # 0 /\ bound # 0 /\ bound # srv ->
                            \* another server object holds the port: the
                            \* listen callback is never called
                            /\ bound' = bound
                            /\ calls' = Put(c, [c EXCEPT !.pc = "hung"])
                       [] OTHER ->
                            /\ bound' = srv
                            /\ calls' = Put(c, [c EXCEPT !.pc = "listen"])
    /\ last' = "other"
    /\ UNCHANGED <<dbConfigured, landmineAsync, starts, serverObj, hookVars, reportVars,
                   readyCount, lateStart>>
    /\ lastStop' = NoStop

\* listenPromise.catch(...), and `await listenPromise` throws
StartListenRejected(c) ==
    /\ c.pc = "listenRejected"
    /\ state' = ERROR
    /\ fired' = <<>>
    /\ error' = "listen"
    /\ calls' = Put(c, IdleCall)
    /\ last' = "other"
    /\ UNCHANGED <<dbConfigured, landmineAsync, starts, serverVars, hookVars, reportVars,
                   readyCount, lateStart>>
    /\ lastStop' = NoStop

\* The listen callback; start() then enters _executeComponentHooks('setup')
\* and awaits the arguments of the first hook.
StartListening(c) ==
    /\ c.pc = "listen" /\ NoMicrotask
    /\ state' = STARTED
    /\ fired' = <<"started">>
    /\ calls' = Put(c, [c EXCEPT !.pc = "hooks", !.idx = 1,
                                                      !.hooks = NoHooks])
    /\ last' = "other"
    /\ UNCHANGED <<error, dbConfigured, landmineAsync, starts, serverVars, hookVars,
                   reportVars, readyCount, lateStart>>
    /\ lastStop' = NoStop

\* component.module[hookName].constructor.name === 'AsyncFunction'
IsAsyncHook(comp, hook) == comp = "testComponent" \/ landmineAsync

HookOf(kind) == IF kind = "start" THEN "setup" ELSE "onShutdown"

DropComponentError(errs, comp, hook) == errs

\* _handleComponentError(key, componentRecord, error)
HandleComponentError(errs, comp, hook) ==
    [errs EXCEPT ![comp][hook] = @ + 1]

\* _executeComponentHooks: the loop body for the next component
HookInvoke(c) ==
    /\ c.pc = "hooks" /\ NoMicrotask
    /\ c.idx <= Len(ComponentOrder)
    /\ LET comp == ComponentOrder[c.idx]
           hook == HookOf(c.kind)
       IN  IF ~HasHook(comp, hook)
           THEN /\ calls' = Put(c, [c EXCEPT !.idx = @ + 1])
                /\ UNCHANGED <<errors, hookCalls>>
           ELSE /\ hookCalls' = [hookCalls EXCEPT ![comp][hook] = @ + 1]
                /\ IF IsAsyncHook(comp, hook)
                   THEN /\ calls' = Put(c, [c EXCEPT !.idx = @ + 1,
                                                     !.hooks[comp] = "pending"])
                        /\ errors' = errors
                   ELSE LET out == HookOutcome(comp, hook)
                        IN  /\ calls' = Put(c, [c EXCEPT !.idx = @ + 1,
                                                         !.hooks[comp] = out])
                            /\ errors' = IF out = "rejected"
                                         THEN HandleComponentError(errors, comp, hook)
                                         ELSE errors
    /\ fired' = <<>>
    /\ last' = "other"
    /\ UNCHANGED <<state, error, dbConfigured, landmineAsync, starts, serverVars, reportVars,
                   readyCount, lateStart>>
    /\ lastStop' = NoStop

\* The promise of an async hook settles.
HookSettle(c, comp) ==
    /\ c.pc = "hooks" /\ NoMicrotask
    /\ c.hooks[comp] = "pending"
    /\ LET out == HookOutcome(comp, HookOf(c.kind))
       IN  /\ calls' = Put(c, [c EXCEPT !.hooks[comp] = out])
           /\ errors' = IF out = "rejected"
                        THEN HandleComponentError(errors, comp, HookOf(c.kind))
                        ELSE errors
    /\ fired' = <<>>
    /\ last' = "other"
    /\ UNCHANGED <<state, error, dbConfigured, landmineAsync, starts, serverVars, hookCalls,
                   reportVars, readyCount, lateStart>>
    /\ lastStop' = NoStop

HooksInvokedOnly(rec) == rec.idx > Len(ComponentOrder)

\* await Promise.allSettled(promises) returns
HooksSettled(rec) ==
    /\ rec.idx > Len(ComponentOrder)
    /\ \A k \in Components : rec.hooks[k] # "pending"

\* start() after the setup hooks: the OpenAPI endpoint is installed, then
\* `await instances.findOne(selector)`
StartHooksDone(c) ==
    /\ c.kind = "start" /\ c.pc = "hooks" /\ NoMicrotask
    /\ HooksSettled(c)
    /\ calls' = Put(c, [c EXCEPT !.pc = "reportFind"])
    /\ fired' = <<>>
    /\ last' = "other"
    /\ UNCHANGED <<state, error, dbConfigured, landmineAsync, starts, serverVars, hookVars,
                   reportVars, readyCount, lateStart>>
    /\ lastStop' = NoStop

\* findOne answers; the server record is built and its insertOne or
\* replaceOne is awaited.
StartReportFind(c) ==
    /\ c.pc = "reportFind" /\ NoMicrotask
    /\ records' = Append(records, FreshRecord)
    /\ serverRecord' = Len(records) + 1
    /\ calls' = Put(c, [c EXCEPT !.pc = "reportWrite",
                                 !.id = Len(records) + 1,
                                 !.flag = ~row.exists])
    /\ fired' = <<>>
    /\ last' = "other"
    /\ UNCHANGED <<state, error, dbConfigured, landmineAsync, starts, serverVars, hookVars,
                   timers, updateInterval, row, tickWrites, readyCount,
                   lateStart>>
    /\ lastStop' = NoStop

\* What a write of record r leaves in the collection: the document as it was
\* when the call was made, or as the object is when the driver serializes it.
Written(snapshot, r) == {snapshot, records[r]}

\* insertOne(doc) when findOne found nothing, replaceOne(selector, doc) else
Upsert(found, doc) == IF ~found \/ row.exists THEN doc ELSE row

\* The write is done: the reporter timer is started and the state is READY.
StartReportWrite(c) ==
    /\ c.pc = "reportWrite" /\ NoMicrotask
    /\ \E doc \in Written(FreshRecord, c.id) :
         row' = Upsert(~c.flag, doc)
    /\ timers' = timers \cup {c.id}
    /\ updateInterval' = c.id
    /\ state' = READY
    /\ fired' = <<"ready">>
    /\ readyCount' = readyCount + 1
    /\ calls' = Put(c, IdleCall)
    /\ last' = "other"
    /\ UNCHANGED <<error, dbConfigured, landmineAsync, starts, serverVars, hookVars, records,
                   serverRecord, tickWrites, lateStart>>
    /\ lastStop' = NoStop

\* The reporter's timer fires: replaceOne is called and not awaited.
Tick(t) ==
    /\ t \in timers /\ NoMicrotask
    /\ Cardinality(tickWrites) < MaxTickWrites
    /\ tickWrites' = tickWrites \cup
                       {[rec |-> t, live |-> records[t].live,
                         reason |-> records[t].reason]}
    /\ tickWrites' # tickWrites
    /\ fired' = <<>>
    /\ last' = "other"
    /\ UNCHANGED <<state, error, dbConfigured, landmineAsync, calls, starts, serverVars,
                   hookVars, records, serverRecord, timers, updateInterval,
                   row, readyCount, lateStart>>
    /\ lastStop' = NoStop

\* A replaceOne of the reporter is applied by the data store.
TickWriteLands(w) ==
    /\ w \in tickWrites /\ NoMicrotask
    /\ tickWrites' = tickWrites \ {w}
    /\ \E doc \in Written([exists |-> TRUE, live |-> w.live, reason |-> w.reason], w.rec) :
         row' = Upsert(TRUE, doc)
    /\ fired' = <<>>
    /\ last' = "other"
    /\ UNCHANGED <<state, error, dbConfigured, landmineAsync, calls, starts, serverVars,
                   hookVars, records, serverRecord, timers, updateInterval,
                   readyCount, lateStart>>
    /\ lastStop' = NoStop

\* The reason passed to stop(): successive shutdowns of the instance are
\* given different reasons, which tells a stopReason left by an earlier
\* shutdown from the one of the latest.
StopReason == IF readyCount % 2 = 1 THEN "SIGTERM" ELSE "SIGINT"

StopGuardFromReadyOn(s) == s >= READY

\* stop(): `this._state !== serverStates.ready` returns at once
StopGuard(s) == s = READY

\* stop(stopReason), up to the await of the first hook's arguments
StopInvoke(reason) ==
    /\ NoMicrotask
    /\ StopGuard(state) => Free
    /\ IF StopGuard(state)
       THEN /\ state' = STOPPING
            /\ fired' = <<"stopping">>
            /\ last' = "stop"
            /\ calls' = calls (+) SetToBag({[IdleCall EXCEPT !.kind = "stop",
                                   !.reason = reason, !.pc = "hooks", !.idx = 1]})
       ELSE /\ state' = state
            /\ fired' = <<>>
            /\ last' = "stopIgnored"
            /\ calls' = calls
    /\ UNCHANGED <<error, dbConfigured, landmineAsync, starts, serverVars, hookVars,
                   reportVars, readyCount, lateStart>>
    /\ lastStop' = NoStop

ServerCloseSkipped(b, srv) == b

\* this.server.close(): the port is released if this server object holds it
ServerClose(b, srv) == IF b = srv THEN 0 ELSE b

\* stop() after the onShutdown hooks: this.server.close(resolve)
StopHooksDone(c) ==
    /\ c.kind = "stop" /\ c.pc = "hooks" /\ NoMicrotask
    /\ HooksSettled(c)
    /\ bound' = ServerClose(bound, serverObj)
    /\ calls' = Put(c, [c EXCEPT !.pc = "closing"])
    /\ fired' = <<>>
    /\ last' = "other"
    /\ UNCHANGED <<state, error, dbConfigured, landmineAsync, starts, serverObj, hookVars,
                   reportVars, readyCount, lateStart>>
    /\ lastStop' = NoStop

\* The close callback: the timer is cleared, the record is finalized and its
\* replaceOne is awaited.
StopClosed(c) ==
    /\ c.pc = "closing" /\ NoMicrotask
    /\ timers' = timers \ {updateInterval}
    /\ records' = [records EXCEPT ![serverRecord] =
                     [exists |-> TRUE, live |-> FALSE, reason |-> c.reason]]
    /\ calls' = Put(c, [c EXCEPT !.pc = "finalWrite"])
    /\ fired' = <<>>
    /\ last' = "other"
    /\ UNCHANGED <<state, error, dbConfigured, landmineAsync, starts, serverVars, hookVars,
                   serverRecord, updateInterval, row, tickWrites, readyCount,
                   lateStart>>
    /\ lastStop' = NoStop

\* The final replaceOne is applied, or fails (the failure is caught and
\* logged); `await this._rootDataStore.discard()` follows.
StopFinalWrite(c) ==
    /\ c.pc = "finalWrite" /\ NoMicrotask
    /\ \E outcome \in {"ok", "fail"} :
         IF outcome = "ok"
         THEN /\ row' = Upsert(TRUE, [exists |-> TRUE, live |-> FALSE,
                                      reason |-> c.reason])
              /\ calls' = Put(c, [c EXCEPT !.pc = "discard", !.flag = TRUE])
         ELSE /\ row' = row
              /\ calls' = Put(c, [c EXCEPT !.pc = "discard", !.flag = FALSE])
    /\ fired' = <<>>
    /\ last' = "other"
    /\ UNCHANGED <<state, error, dbConfigured, landmineAsync, starts, serverVars, hookVars,
                   records, serverRecord, timers, updateInterval, tickWrites,
                   readyCount, lateStart>>
    /\ lastStop' = NoStop

\* The data store is closed: the state is STOPPED and stop() returns.
StopDiscard(c) ==
    /\ c.pc = "discard" /\ NoMicrotask
    /\ state' = STOPPED
    /\ fired' = <<"stopped">>
    /\ lastStop' = [reason |-> c.reason, written |-> c.flag]
    /\ calls' = Put(c, IdleCall)
    /\ last' = "other"
    /\ UNCHANGED <<error, dbConfigured, landmineAsync, starts, serverVars, hookVars,
                   reportVars, readyCount, lateStart>>

\* new Morrigan(settings)
LifeInit ==
    /\ state = INSTANCED
    /\ fired = <<>>
    /\ error = "none"
    /\ dbConfigured \in BOOLEAN
    /\ landmineAsync \in BOOLEAN
    /\ calls = EmptyBag
    /\ starts = 0
    /\ serverObj = 0
    /\ bound = 0
    /\ errors = [k \in Components |-> [h \in HookNames |-> 0]]
    /\ hookCalls = [k \in Components |-> [h \in HookNames |-> 0]]
    /\ records = <<>>
    /\ serverRecord = 0
    /\ timers = {}
    /\ updateInterval = 0
    /\ row = NoRow
    /\ tickWrites = {}
    /\ readyCount = 0
    /\ lateStart = FALSE
    /\ lastStop = NoStop
    /\ last = "other"

LifeNext ==
    \/ SetupInvoke
          /\ UNCHANGED <<tokenVars, sessionVars, identityVars, agentVars, frameVars>>
    \/ \E c \in Calls : SetupStore(c)
          /\ UNCHANGED <<tokenVars, sessionVars, identityVars, agentVars, frameVars>>
    \/ StartInvoke
          /\ UNCHANGED <<tokenVars, sessionVars, identityVars, agentVars, frameVars>>
    \/ \E c \in Calls : StartProceed(c)
          /\ UNCHANGED <<tokenVars, sessionVars, identityVars, agentVars, frameVars>>
    \/ \E c \in Calls : StartConnect(c)
          /\ UNCHANGED <<tokenVars, sessionVars, identityVars, agentVars, frameVars>>
    \/ \E c \in Calls : StartListenRejected(c)
          /\ UNCHANGED <<tokenVars, sessionVars, identityVars, agentVars, frameVars>>
    \/ \E c \in Calls : StartListening(c)
          /\ UNCHANGED <<tokenVars, sessionVars, identityVars, agentVars, frameVars>>
    \/ \E c \in Calls : HookInvoke(c)
          /\ UNCHANGED <<tokenVars, sessionVars, identityVars, agentVars, frameVars>>
    \/ \E c \in Calls, k \in Components : HookSettle(c, k)
          /\ UNCHANGED <<tokenVars, sessionVars, identityVars, agentVars, frameVars>>
    \/ \E c \in Calls : StartHooksDone(c)
          /\ UNCHANGED <<tokenVars, sessionVars, identityVars, agentVars, frameVars>>
    \/ \E c \in Calls : StartReportFind(c)
          /\ UNCHANGED <<tokenVars, sessionVars, identityVars, agentVars, frameVars>>
    \/ \E c \in Calls : StartReportWrite(c)
          /\ UNCHANGED <<tokenVars, sessionVars, identityVars, agentVars, frameVars>>
    \/ \E t \in timers : Tick(t)
          /\ UNCHANGED <<tokenVars, sessionVars, identityVars, agentVars, frameVars>>
    \/ \E w \in tickWrites : TickWriteLands(w)
          /\ UNCHANGED <<tokenVars, sessionVars, identityVars, agentVars, frameVars>>
    \/ StopInvoke(StopReason)
          /\ UNCHANGED <<tokenVars, sessionVars, identityVars, agentVars, frameVars>>
    \/ \E c \in Calls : StopHooksDone(c)
          /\ UNCHANGED <<tokenVars, sessionVars, identityVars, agentVars, frameVars>>
    \/ \E c \in Calls : StopClosed(c)
          /\ UNCHANGED <<tokenVars, sessionVars, identityVars, agentVars, frameVars>>
    \/ \E c \in Calls : StopFinalWrite(c)
          /\ UNCHANGED <<tokenVars, sessionVars, identityVars, agentVars, frameVars>>
    \/ \E c \in Calls : StopDiscard(c)
          /\ UNCHANGED <<tokenVars, sessionVars, identityVars, agentVars, frameVars>>

(***************************************************************************)
(* The token service, src/modules/TokenGenerator.js                        *)
(*                                                                         *)
(* A key pair is a number: a signature made with private key n verifies    *)
(* under public key m exactly when n = m.  The issuer of every record is   *)
(* the id of the one generator and is never empty.                         *)
(***************************************************************************)
Subjects == {"", "agentA"}

NoVerify == [kid |-> 0, success |-> FALSE, status |-> "none", subject |-> "none"]

Min(S) == CHOOSE x \in S : \A y \in S : x <= y

\* collection.findOne({field: value}): index of the first matching document,
\* or 0
FindOne(coll, field, value) ==
    LET hits == {i \in DOMAIN coll : coll[i][field] = value}
    IN  IF hits = {} THEN 0 ELSE Min(hits)

\* collection.replaceOne({field: value}, doc), without upsert
ReplaceOne(coll, field, value, doc) ==
    LET i == FindOne(coll, field, value)
    IN  IF i = 0 THEN coll ELSE [coll EXCEPT ![i] = doc]

\* collection.deleteOne({field: value})
DeleteOne(coll, field, value) ==
    LET i == FindOne(coll, field, value)
    IN  IF i = 0 THEN coll
        ELSE [k \in 1..(Len(coll) - 1) |-> IF k < i THEN coll[k] ELSE coll[k + 1]]

\* JavaScript truthiness of a string
Truthy(str) == str # ""

\* generateKeys()
GenerateKeys ==
    /\ keyUpdateInterval = "active"
    /\ publicKey < MaxKeys
    /\ publicKey' = publicKey + 1
    /\ verified' = NoVerify
    /\ UNCHANGED <<tokenCollection, keyUpdateInterval, nextToken, newTokenCalls,
                   tokenWrites, tokens, expired>>

\* dispose()
Dispose ==
    /\ keyUpdateInterval = "active"
    /\ keyUpdateInterval' = "cleared"
    /\ verified' = NoVerify
    /\ UNCHANGED <<tokenCollection, publicKey, nextToken, newTokenCalls,
                   tokenWrites, tokens, expired>>

\* newToken(subject) up to `await this.tokenCollection.findOne(...)`: the
\* record is built and the token is signed with the current private key.
NewTokenInvoke(sub) ==
    /\ nextToken < MaxTokens
    /\ nextToken' = nextToken + 1
    /\ newTokenCalls' = newTokenCalls \cup
          {[id |-> nextToken + 1, subject |-> sub, key |-> publicKey,
            begun |-> Len(tokens)]}
    /\ verified' = NoVerify
    /\ UNCHANGED <<tokenCollection, publicKey, keyUpdateInterval, tokenWrites,
                   tokens, expired>>

TokenRecordLateKey(c) == [id |-> c.id, subject |-> c.subject, key |-> publicKey]

\* var tokenRecord = {...}: built before the token is signed, with the public
\* key of that moment
TokenRecord(c) == [id |-> c.id, subject |-> c.subject, key |-> c.key]

\* findOne answers: replaceOne or insertOne is called and not awaited, the
\* keys are regenerated if there is no interval, and the token is returned.
NewTokenFound(c) ==
    LET cur == FindOne(tokenCollection, "subject", c.subject)
        tokenRecord == TokenRecord(c)
    IN  /\ tokenWrites' = tokenWrites \cup
              {IF cur # 0
               THEN [op |-> "replace", target |-> tokenCollection[cur].id,
                     doc |-> tokenRecord]
               ELSE [op |-> "insert", target |-> 0, doc |-> tokenRecord]}
        /\ publicKey' = IF keyUpdateInterval = "none" THEN publicKey + 1
                        ELSE publicKey
        /\ tokens' = Append(tokens, [kid |-> c.id, sub |-> c.subject,
                                     key |-> c.key, begun |-> c.begun])
        /\ newTokenCalls' = newTokenCalls \ {c}
        /\ verified' = NoVerify
        /\ UNCHANGED <<tokenCollection, keyUpdateInterval, nextToken, expired>>

\* The data store applies a write of newToken().
TokenWriteLands(w) ==
    /\ tokenCollection' = IF w.op = "insert"
                          THEN Append(tokenCollection, w.doc)
                          ELSE ReplaceOne(tokenCollection, "id", w.target, w.doc)
    /\ tokenWrites' = tokenWrites \ {w}
    /\ verified' = NoVerify
    /\ UNCHANGED <<publicKey, keyUpdateInterval, nextToken, newTokenCalls,
                   tokens, expired>>

\* The expiry time of an issued token passes.
Expire(i) ==
    /\ tokens[i].kid \notin expired
    /\ expired' = expired \cup {tokens[i].kid}
    /\ verified' = NoVerify
    /\ UNCHANGED <<tokenCollection, publicKey, keyUpdateInterval, nextToken,
                   newTokenCalls, tokenWrites, tokens>>

\* jwt.verify(token, key, {issuer, subject})
JwtVerify(t, rec) ==
    /\ rec.key = t.key
    /\ rec.subject = t.sub
    /\ t.kid \notin expired

\* verifyToken(token) for the token t, against the collection coll
VerifyToken(t, coll) ==
    LET i == FindOne(coll, "id", t.kid)
    IN  IF i = 0
        THEN [kid |-> t.kid, success |-> FALSE, status |-> "noRecordError",
              subject |-> "none"]
        ELSE IF ~Truthy(coll[i].subject)
        THEN [kid |-> t.kid, success |-> FALSE, status |-> "invalidRecordError",
              subject |-> "none"]
        ELSE IF JwtVerify(t, coll[i])
        THEN [kid |-> t.kid, success |-> TRUE, status |-> "success",
              subject |-> coll[i].subject]
        ELSE [kid |-> t.kid, success |-> FALSE, status |-> "invalidTokenError",
              subject |-> "none"]

\* verifyToken(token) is called with an issued token and its findOne answers.
VerifyInvoke(i) ==
    /\ verified' = VerifyToken(tokens[i], tokenCollection)
    /\ UNCHANGED <<tokenCollection, publicKey, keyUpdateInterval, nextToken,
                   newTokenCalls, tokenWrites, tokens, expired>>

\* new TokenGenerator(options): keys are generated, and the rotation
\* interval is set when keyLifetime is positive.
TokenInit ==
    /\ tokenCollection = <<>>
    /\ publicKey = 1
    /\ keyUpdateInterval \in {"none", "active"}
    /\ nextToken = 0
    /\ newTokenCalls = {}
    /\ tokenWrites = {}
    /\ tokens = <<>>
    /\ expired = {}
    /\ verified = NoVerify

TokenIdle == TokenInit /\ keyUpdateInterval = "active"

TokenNext ==
    \/ GenerateKeys
          /\ UNCHANGED <<lifeVars, sessionVars, identityVars, agentVars, frameVars>>
    \/ Dispose
          /\ UNCHANGED <<lifeVars, sessionVars, identityVars, agentVars, frameVars>>
    \/ \E sub \in Subjects : NewTokenInvoke(sub)
          /\ UNCHANGED <<lifeVars, sessionVars, identityVars, agentVars, frameVars>>
    \/ \E c \in newTokenCalls : NewTokenFound(c)
          /\ UNCHANGED <<lifeVars, sessionVars, identityVars, agentVars, frameVars>>
    \/ \E w \in tokenWrites : TokenWriteLands(w)
          /\ UNCHANGED <<lifeVars, sessionVars, identityVars, agentVars, frameVars>>
    \/ \E i \in DOMAIN tokens : Expire(i)
          /\ UNCHANGED <<lifeVars, sessionVars, identityVars, agentVars, frameVars>>
    \/ \E i \in DOMAIN tokens : VerifyInvoke(i)
          /\ UNCHANGED <<lifeVars, sessionVars, identityVars, agentVars, frameVars>>

(***************************************************************************)
(* The session manager: the connection provider in src/modules/APICore.js  *)
(*                                                                         *)
(* The servers share the connections collection; the maps sockets and      *)
(* heartbeats are kept by each server, and as connection ids are unique    *)
(* they are modelled as one set each.                                      *)
(***************************************************************************)
Servers == {1, 2}

Agents == {"agentA", "agentB"}

\* what the token in the origin header of a connection request stands for
Credentials == Agents \cup {"invalid"}

\* the connections; 0 in `owner` stands for one that was not made yet
Connections == 1..MaxConnections

\* the connections of server srv
Owned(srv) == {n \in Connections : owner[n] = srv}

GreetingReversed == <<"capability.report", "connection.state accepted">>

\* the two ws.send calls at the end of ep_wsConnect
Greeting == <<"connection.state accepted", "capability.report">>

\* ep_wsConnect up to `await coreEnv.providers.client.verifyToken(...)`
WsConnect(srv, cred) ==
    /\ nextConnection < MaxConnections
    /\ down[srv] = "up"
    /\ nextConnection' = nextConnection + 1
    /\ connects' = connects \cup
          {[id |-> nextConnection + 1, server |-> srv, cred |-> cred,
            pc |-> "verify"]}
    /\ openSockets' = openSockets \cup {nextConnection + 1}
    /\ owner' = [owner EXCEPT ![nextConnection + 1] = srv]
    /\ UNCHANGED <<connectionRecords, sockets, heartbeats, cleanups,
                   connectionWrites>>
    /\ UNCHANGED <<rejected, duplicates, sent, missed, down>>

\* verifyToken answers: a failed authentication calls cleanup() and returns,
\* a successful one goes on to `await connectionRecords.findOne({clientId})`.
WsVerified(c) ==
    /\ c.pc = "verify"
    /\ IF c.cred = "invalid"
       THEN /\ connects' = connects \ {c}
            /\ cleanups' = cleanups \cup {c.id}
            /\ rejected' = rejected \cup {c.id}
       ELSE /\ connects' = (connects \ {c}) \cup {[c EXCEPT !.pc = "find"]}
            /\ cleanups' = cleanups
            /\ rejected' = rejected
    /\ UNCHANGED <<connectionRecords, nextConnection, sockets, openSockets,
                   heartbeats, connectionWrites>>
    /\ UNCHANGED <<duplicates, sent, missed, owner, down>>

\* findOne answers: with a live record of the client the attempt is given up;
\* otherwise a dead record is deleted, the heartbeat and the socket are
\* registered, the record is inserted, neither write being awaited, and the
\* two messages are sent (a socket that has closed meanwhile carries none).
WsFound(c) ==
    /\ c.pc = "find"
    /\ LET cur == FindOne(connectionRecords, "clientId", c.cred)
           record == [id |-> c.id, clientId |-> c.cred, isAlive |-> TRUE,
                      open |-> TRUE, serverId |-> c.server]
       IN  IF cur # 0 /\ connectionRecords[cur].isAlive
           THEN /\ cleanups' = cleanups \cup {c.id}
                /\ duplicates' = duplicates \cup {c.id}
                /\ UNCHANGED <<sockets, heartbeats, connectionWrites, sent>>
           ELSE /\ connectionWrites' = connectionWrites
                      \cup (IF cur # 0
                            THEN {[op |-> "delete",
                                   target |-> connectionRecords[cur].id,
                                   doc |-> record]}
                            ELSE {})
                      \cup {[op |-> "insert", target |-> 0, doc |-> record]}
                /\ heartbeats' = heartbeats \cup {c.id}
                /\ sockets' = sockets \cup {c.id}
                /\ sent' = [sent EXCEPT ![c.id] = IF c.id \in openSockets
                                                  THEN Greeting ELSE <<>>]
                /\ UNCHANGED <<cleanups, duplicates>>
    /\ connects' = connects \ {c}
    /\ UNCHANGED <<connectionRecords, nextConnection, openSockets>>
    /\ UNCHANGED <<rejected, missed, owner, down>>

\* the connections on which ep_wsConnect sent 'connection.state' accepted:
\* it does so in the step that registers the socket
Accepted == sockets

\* what connectionRecords.update({id}, {isAlive: false}) leaves of a document
\* when the driver takes the second argument as the new document
OnlyNotAlive == [id |-> 0, clientId |-> "", isAlive |-> FALSE, open |-> FALSE,
                 serverId |-> 0]

\* The data store applies a write of the connection provider.  The update of
\* onShutdown names no update operator: the driver either refuses it or puts
\* the argument in the place of the document.
ConnectionWriteLands(w) ==
    /\ \/ /\ w.op = "insert"
          /\ connectionRecords' = Append(connectionRecords, w.doc)
       \/ /\ w.op = "delete"
          /\ connectionRecords' = DeleteOne(connectionRecords, "id", w.target)
       \/ /\ w.op = "replace"
          /\ connectionRecords' =
                ReplaceOne(connectionRecords, "id", w.target, w.doc)
       \/ /\ w.op = "update"
          /\ \/ connectionRecords' = connectionRecords
             \/ connectionRecords' =
                   ReplaceOne(connectionRecords, "id", w.target, OnlyNotAlive)
    /\ connectionWrites' = connectionWrites \ {w}
    /\ UNCHANGED <<nextConnection, connects, sockets, openSockets,
                   heartbeats, cleanups>>
    /\ UNCHANGED <<rejected, duplicates, sent, missed, owner, down>>

\* The websocket closes.  The 'close' listener, which calls cleanup(), exists
\* once ep_wsConnect has registered the socket.
WsClose(id) ==
    /\ id \in openSockets
    /\ openSockets' = openSockets \ {id}
    /\ cleanups' = IF id \in sockets THEN cleanups \cup {id} ELSE cleanups
    /\ UNCHANGED <<connectionRecords, nextConnection, connects, sockets,
                   heartbeats, connectionWrites>>
    /\ UNCHANGED <<rejected, duplicates, sent, missed, owner, down>>

\* cleanup(connectionId) after its findOne has answered.  Without a socket
\* in the map, or without a record, the function ends in a TypeError.
CleanupFound(id) ==
    /\ id \in cleanups
    /\ cleanups' = cleanups \ {id}
    /\ LET i == FindOne(connectionRecords, "id", id)
       IN  IF id \notin sockets
           THEN UNCHANGED <<openSockets, heartbeats, connectionWrites>>
           ELSE /\ openSockets' = openSockets \ {id}
                /\ IF i = 0
                   THEN UNCHANGED <<heartbeats, connectionWrites>>
                   ELSE /\ heartbeats' = heartbeats \ {id}
                        /\ connectionWrites' = connectionWrites \cup
                              {[op |-> "replace", target |-> id,
                                doc |-> [connectionRecords[i] EXCEPT
                                            !.isAlive = FALSE, !.open = FALSE]]}
    /\ UNCHANGED <<connectionRecords, nextConnection, connects, sockets>>
    /\ UNCHANGED <<rejected, duplicates, sent, missed, owner, down>>

Terminate(id, open) == IF missed[id] > 0 THEN open \ {id} ELSE open

\* ws.ping(): a ping frame goes out, the socket stays as it is
Ping(id, open) == open

\* The heartbeat interval of a connection fires: a missed heartbeat is
\* logged, record.isAlive (of the object in memory) becomes false and a ping
\* is sent.
HeartBeatCheck(id) ==
    /\ id \in heartbeats
    /\ missed[id] < MaxMissed
    /\ missed' = [missed EXCEPT ![id] = @ + 1]
    /\ openSockets' = Ping(id, openSockets)
    /\ UNCHANGED <<connectionRecords, nextConnection, connects, sockets,
                   heartbeats, cleanups, connectionWrites>>
    /\ UNCHANGED <<rejected, duplicates, sent, owner, down>>

\* ws.on('pong'): record.isAlive (in memory) becomes true again
Pong(id) ==
    /\ id \in sockets \cap openSockets
    /\ missed[id] > 0
    /\ missed' = [missed EXCEPT ![id] = 0]
    /\ UNCHANGED <<connectionRecords, nextConnection, connects, sockets,
                   openSockets, heartbeats, cleanups, connectionWrites>>
    /\ UNCHANGED <<rejected, duplicates, sent, owner, down>>

\* no send() call was made yet
NoSend == [srv |-> 0, id |-> 0, status |-> "none", reason |-> "none"]

SendResultServerFirst(srv, id) ==
    LET i == FindOne(connectionRecords, "id", id)
    IN  IF i = 0 THEN "No such connection."
        ELSE IF connectionRecords[i].serverId # srv
        THEN "Connection does not belong to this server."
        ELSE IF ~connectionRecords[i].isAlive \/ ~connectionRecords[i].open
        THEN "Connection closed or client not live."
        ELSE "none"

\* the three checks of send() on the record its findOne returned
SendResult(srv, id) ==
    LET i == FindOne(connectionRecords, "id", id)
    IN  IF i = 0 THEN "No such connection."
        ELSE IF ~connectionRecords[i].isAlive \/ ~connectionRecords[i].open
        THEN "Connection closed or client not live."
        ELSE IF connectionRecords[i].serverId # srv
        THEN "Connection does not belong to this server."
        ELSE "none"

\* send(connectionId, message) called on server srv, after its findOne:
\* a failed check is returned as {status: 'failed', reason}; otherwise the
\* message goes out on the socket of the map (s.send throws when the map
\* holds none, and nothing goes out on a socket that has closed).
Send(srv, id) ==
    /\ down[srv] = "up"
    /\ Len(sent[id]) < MaxSent
    /\ LET reason == SendResult(srv, id)
       IN  IF reason # "none"
           THEN /\ sendResult' = [srv |-> srv, id |-> id, status |-> "failed",
                                  reason |-> reason]
                /\ sent' = sent
           ELSE IF id \in Owned(srv) \cap sockets \cap openSockets
           THEN /\ sendResult' = [srv |-> srv, id |-> id,
                                  status |-> "success", reason |-> "none"]
                /\ sent' = [sent EXCEPT ![id] = Append(@, "message")]
           ELSE /\ sendResult' = [srv |-> srv, id |-> id, status |-> "threw",
                                  reason |-> "none"]
                /\ sent' = sent
    /\ UNCHANGED <<connectionRecords, nextConnection, connects, sockets,
                   openSockets, heartbeats, cleanups, connectionWrites>>
    /\ UNCHANGED <<rejected, duplicates, missed, owner, down>>

\* onShutdown() of server srv: every socket in its map is closed (the close
\* listener of one that was open calls cleanup()) and an update of its
\* record is sent without being awaited.
OnShutdown(srv) ==
    /\ down[srv] = "up"
    /\ down' = [down EXCEPT ![srv] = "stopped"]
    /\ openSockets' = openSockets \ (Owned(srv) \cap sockets)
    /\ cleanups' = cleanups \cup (Owned(srv) \cap sockets \cap openSockets)
    /\ connectionWrites' = connectionWrites \cup
          {[op |-> "update", target |-> cid, doc |-> OnlyNotAlive] :
              cid \in Owned(srv) \cap sockets}
    /\ UNCHANGED <<connectionRecords, nextConnection, connects, sockets,
                   heartbeats>>
    /\ UNCHANGED <<rejected, duplicates, sent, missed, owner>>

\* The process of server srv ends (a crash, or the exit after a stop): its
\* calls in progress and its timers are gone, its sockets are closed by the
\* operating system; what it had sent to the data store may still arrive.
Crash(srv) ==
    /\ down[srv] # "crashed"
    /\ down' = [down EXCEPT ![srv] = "crashed"]
    /\ connects' = {c \in connects : c.server # srv}
    /\ cleanups' = cleanups \ Owned(srv)
    /\ heartbeats' = heartbeats \ Owned(srv)
    /\ openSockets' = openSockets \ Owned(srv)
    /\ UNCHANGED <<connectionRecords, nextConnection, sockets, connectionWrites>>
    /\ UNCHANGED <<rejected, duplicates, sent, missed, owner>>

\* the state after setup(env) of the provider
SessionInit ==
    /\ connectionRecords = <<>>
    /\ nextConnection = 0
    /\ connects = {}
    /\ sockets = {}
    /\ openSockets = {}
    /\ heartbeats = {}
    /\ cleanups = {}
    /\ connectionWrites = {}
    /\ rejected = {}
    /\ duplicates = {}
    /\ sent = [n \in Connections |-> <<>>]
    /\ missed = [n \in Connections |-> 0]
    /\ owner = [n \in Connections |-> 0]
    /\ down = [srv \in Servers |-> "up"]
    /\ sendResult = NoSend

SessionNext ==
    \/ \E srv \in Servers, cred \in Credentials : WsConnect(srv, cred)
          /\ UNCHANGED <<lifeVars, tokenVars, identityVars, agentVars, frameVars, sendResult>>
    \/ \E c \in connects : WsVerified(c)
          /\ UNCHANGED <<lifeVars, tokenVars, identityVars, agentVars, frameVars, sendResult>>
    \/ \E c \in connects : WsFound(c)
          /\ UNCHANGED <<lifeVars, tokenVars, identityVars, agentVars, frameVars, sendResult>>
    \/ \E w \in connectionWrites : ConnectionWriteLands(w)
          /\ UNCHANGED <<lifeVars, tokenVars, identityVars, agentVars, frameVars, sendResult>>
    \/ \E id \in openSockets : WsClose(id)
          /\ UNCHANGED <<lifeVars, tokenVars, identityVars, agentVars, frameVars, sendResult>>
    \/ \E id \in cleanups : CleanupFound(id)
          /\ UNCHANGED <<lifeVars, tokenVars, identityVars, agentVars, frameVars, sendResult>>
    \/ \E srv \in Servers : OnShutdown(srv)
          /\ UNCHANGED <<lifeVars, tokenVars, identityVars, agentVars, frameVars, sendResult>>
    \/ \E srv \in Servers : Crash(srv)
          /\ UNCHANGED <<lifeVars, tokenVars, identityVars, agentVars, frameVars, sendResult>>

\* the sessions of servers that stay up: connections, heartbeats, messages
HeartbeatNext ==
    \/ \E srv \in Servers, cred \in Credentials : WsConnect(srv, cred)
          /\ UNCHANGED <<lifeVars, tokenVars, identityVars, agentVars, frameVars, sendResult>>
    \/ \E c \in connects : WsVerified(c)
          /\ UNCHANGED <<lifeVars, tokenVars, identityVars, agentVars, frameVars, sendResult>>
    \/ \E c \in connects : WsFound(c)
          /\ UNCHANGED <<lifeVars, tokenVars, identityVars, agentVars, frameVars, sendResult>>
    \/ \E w \in connectionWrites : ConnectionWriteLands(w)
          /\ UNCHANGED <<lifeVars, tokenVars, identityVars, agentVars, frameVars, sendResult>>
    \/ \E id \in openSockets : WsClose(id)
          /\ UNCHANGED <<lifeVars, tokenVars, identityVars, agentVars, frameVars, sendResult>>
    \/ \E id \in cleanups : CleanupFound(id)
          /\ UNCHANGED <<lifeVars, tokenVars, identityVars, agentVars, frameVars, sendResult>>
    \/ \E id \in heartbeats : HeartBeatCheck(id)
          /\ UNCHANGED <<lifeVars, tokenVars, identityVars, agentVars, frameVars, sendResult>>
    \/ \E id \in sockets : Pong(id)
          /\ UNCHANGED <<lifeVars, tokenVars, identityVars, agentVars, frameVars, sendResult>>
    \/ \E srv \in Servers, id \in Connections : Send(srv, id)
          /\ UNCHANGED <<lifeVars, tokenVars, identityVars, agentVars, frameVars>>

(***************************************************************************)
(* Identity service (class APIAuth of src/modules/APICore.js, and the      *)
(* module src/modules/auth.js, which serves the same API)                  *)
(***************************************************************************)
Names == {"admin", "alice"}

\* accessRights.map((ar) => ar.name)
AccessRights ==
    <<"auth.identity", "auth.identity.create", "auth.identity.get.all",
      "auth.identity.update.all", "auth.identity.delete.all">>

\* the functions field of a request body: one function, or all of them
FunctionsOf(tag) ==
    IF tag = "create" THEN <<"auth.identity.create">>
    ELSE IF tag = "all" THEN AccessRights
    ELSE <<>>

\* request bodies: name "" and the tags "absent" stand for a field not given
Bodies == [name : Names \cup {""},
           auth : {"absent", "valid", "invalid"},
           functions : {"absent", "create"}]

AdminDetails == [name |-> "admin", auth |-> "valid", functions |-> "all"]

NoBody == [name |-> "", auth |-> "absent", functions |-> "absent"]

NoIdentity == [id |-> 0, name |-> "", authId |-> 0, functions |-> <<>>]

\* no request was answered yet
NoResponse == [route |-> "none", subject |-> 0, authenticated |-> NoIdentity,
               status |-> 0, read |-> {}]

\* Object.keys(identity) of a stored identity
IdentityFields == {"id", "name", "authId", "functions"}

\* validateIdentitySpec(details, {newIdentity}): the state of its result
ValidateIdentitySpec(details, newIdentity) ==
    LET i == FindOne(identityRecords, "name", details.name)
    IN  IF newIdentity /\ ~Truthy(details.name) THEN "requestError"
        ELSE IF Truthy(details.name) /\ newIdentity /\ i # 0 THEN "requestError"
        ELSE IF Truthy(details.name) /\ ~newIdentity /\ i = 0 THEN "requestError"
        ELSE IF newIdentity /\ details.auth = "absent" THEN "requestError"
        ELSE IF details.auth = "invalid" THEN "failed"
        ELSE "success"

\* a call is made while another call is in progress
Pending == identityCalls # {}

\* the insertOne calls of addIdentity(), neither of them awaited
AddWrites(details, id, authId) ==
    {[coll |-> "authentication",
      doc |-> [NoIdentity EXCEPT !.id = authId]],
     [coll |-> "identities",
      doc |-> [id |-> id, name |-> details.name, authId |-> authId,
               functions |-> FunctionsOf(details.functions)]]}

\* addIdentity(details): validateIdentitySpec's findOne answers, the
\* authentication details are committed and both documents are inserted.
AddIdentity(details) ==
    /\ identityOps < MaxIdentityOps
    /\ nextUuid + 2 <= MaxUuids
    /\ identityOps' = identityOps + 1
    /\ overlap' = (overlap \/ Pending)
    /\ IF ValidateIdentitySpec(details, TRUE) = "success"
       THEN /\ nextUuid' = nextUuid + 2
            /\ identityWrites' = identityWrites \cup
                  AddWrites(details, nextUuid + 1, nextUuid + 2)
       ELSE UNCHANGED <<nextUuid, identityWrites>>
    /\ UNCHANGED <<identityRecords, authenticationRecords, identityCalls,
                   authModule>>

\* The data store applies an insertOne of addIdentity().
IdentityWriteLands(w) ==
    /\ identityWrites' = identityWrites \ {w}
    /\ IF w.coll = "identities"
       THEN /\ identityRecords' = Append(identityRecords, w.doc)
            /\ UNCHANGED authenticationRecords
       ELSE /\ authenticationRecords' = Append(authenticationRecords, w.doc)
            /\ UNCHANGED identityRecords
    /\ UNCHANGED <<identityCalls, nextUuid, authModule, identityOps,
                   overlap>>

\* the check of req.body.functions in router.patch('/identity/me'), which
\* auth.js does not have
MeRejectsFunctions(body) ==
    authModule = "APICore" /\ body.functions # "absent"

\* PATCH /identity/me (via "me") and PATCH /identity/:identityId (via "id"),
\* up to the findOne of setIdentity(): the endpoint's checks, and
\* validateIdentitySpec(details).
PatchIdentity(id, body, via) ==
    /\ identityOps < MaxIdentityOps
    /\ Cardinality(identityCalls) < MaxIdentityCalls
    /\ via = "me" => FindOne(identityRecords, "id", id) # 0
    /\ identityOps' = identityOps + 1
    /\ overlap' = (overlap \/ Pending)
    /\ IF (via = "me" /\ MeRejectsFunctions(body))
          \/ ValidateIdentitySpec(body, FALSE) # "success"
       THEN UNCHANGED identityCalls
       ELSE identityCalls' = identityCalls \cup
               {[op |-> "set", pc |-> "find", id |-> id,
                 via |-> via, body |-> body, found |-> NoIdentity,
                 update |-> NoIdentity, newAuth |-> 0]}
    /\ UNCHANGED <<identityRecords, authenticationRecords, identityWrites,
                   nextUuid, authModule>>

\* case 'auth' of setIdentity(): the identity is bound to the new record
Rebind(identity, newAuthId) == [identity EXCEPT !.authId = newAuthId]

\* the switch of setIdentity() over the fields of the clean record; case
\* 'functions' has no break, so the default case runs after it
ApplyUpdate(identity, body, allowSecurityEdit, newAuthId) ==
    LET named == IF Truthy(body.name) /\ "name" \in IdentityFields
                 THEN [identity EXCEPT !.name = body.name] ELSE identity
        authed == IF body.auth = "valid" THEN Rebind(named, newAuthId)
                  ELSE named
        secured == IF body.functions # "absent" /\ allowSecurityEdit
                   THEN [authed EXCEPT !.functions = FunctionsOf(body.functions)]
                   ELSE authed
    IN  IF body.functions # "absent" /\ "functions" \in IdentityFields
        THEN [secured EXCEPT !.functions = FunctionsOf(body.functions)]
        ELSE secured

\* setIdentity(): findOne({id}) answers and the update is prepared;
\* Object.keys(null) throws when there is no such identity.
SetFound(c) ==
    /\ c.op = "set" /\ c.pc = "find"
    /\ c.body.auth = "valid" => nextUuid < MaxUuids
    /\ LET i == FindOne(identityRecords, "id", c.id)
       IN  IF i = 0
           THEN /\ identityCalls' = identityCalls \ {c}
                /\ UNCHANGED nextUuid
           ELSE /\ nextUuid' = IF c.body.auth = "valid" THEN nextUuid + 1
                               ELSE nextUuid
                /\ identityCalls' = (identityCalls \ {c}) \cup
                      {[c EXCEPT
                          !.pc = IF c.body.auth = "valid" THEN "writeAuth"
                                 ELSE "writeIdentity",
                          !.body = NoBody,
                          !.newAuth = IF c.body.auth = "valid" THEN nextUuid + 1
                                      ELSE 0,
                          !.found = identityRecords[i],
                          !.update = ApplyUpdate(identityRecords[i], c.body,
                                                 c.via = "id", nextUuid + 1)]}
    /\ UNCHANGED <<identityRecords, authenticationRecords, identityWrites,
                   authModule, identityOps, overlap>>

\* setIdentity(): authenticationRecords.replaceOne({id: identity.authId}, newAuth)
SetAuthWritten(c) ==
    /\ c.op = "set" /\ c.pc = "writeAuth"
    /\ authenticationRecords' =
          ReplaceOne(authenticationRecords, "id", c.found.authId,
                     [NoIdentity EXCEPT !.id = c.newAuth])
    /\ identityCalls' = (identityCalls \ {c}) \cup {[c EXCEPT !.pc = "writeIdentity"]}
    /\ UNCHANGED <<identityRecords, identityWrites, nextUuid, authModule,
                   identityOps, overlap>>

\* setIdentity(): identityRecords.replaceOne({id: identity.id}, newIdentity)
SetIdentityWritten(c) ==
    /\ c.op = "set" /\ c.pc = "writeIdentity"
    /\ identityRecords' = ReplaceOne(identityRecords, "id", c.found.id, c.update)
    /\ identityCalls' = identityCalls \ {c}
    /\ UNCHANGED <<authenticationRecords, identityWrites, nextUuid, authModule,
                   identityOps, overlap>>

\* removeIdentity(identityId) up to the first removeOne: findOne({id})
\* answers; identity.authId throws when there is no such identity.
RemoveInvoke(id) ==
    /\ identityOps < MaxIdentityOps
    /\ Cardinality(identityCalls) < MaxIdentityCalls
    /\ identityOps' = identityOps + 1
    /\ overlap' = (overlap \/ Pending)
    /\ LET i == FindOne(identityRecords, "id", id)
       IN  IF i = 0 THEN UNCHANGED identityCalls
           ELSE identityCalls' = identityCalls \cup
                   {[op |-> "remove", pc |-> "removeAuth",
                     id |-> id, via |-> "id",
                     body |-> NoBody,
                     found |-> identityRecords[i], update |-> NoIdentity, newAuth |-> 0]}
    /\ UNCHANGED <<identityRecords, authenticationRecords, identityWrites,
                   nextUuid, authModule>>

\* removeIdentity(): authenticationRecords.removeOne({id: authId}).  A
\* collection of the data store driver that has no removeOne makes the call
\* throw here.
RemoveAuth(c) ==
    /\ c.op = "remove" /\ c.pc = "removeAuth"
    /\ \/ /\ identityCalls' = identityCalls \ {c}
          /\ UNCHANGED authenticationRecords
       \/ /\ authenticationRecords' =
                DeleteOne(authenticationRecords, "id", c.found.authId)
          /\ identityCalls' = (identityCalls \ {c}) \cup
                {[c EXCEPT !.pc = "removeIdentity"]}
    /\ UNCHANGED <<identityRecords, identityWrites, nextUuid, authModule,
                   identityOps, overlap>>

\* a removeIdentity() that returns with the identity record still stored
RemoveIdentityKeepsRecord(c) ==
    /\ c.op = "remove" /\ c.pc = "removeIdentity"
    /\ identityCalls' = identityCalls \ {c}
    /\ UNCHANGED <<identityRecords, authenticationRecords, identityWrites,
                   nextUuid, authModule, identityOps, overlap>>

\* removeIdentity(): identityRecords.removeOne({id: identity.id})
RemoveIdentity(c) ==
    /\ c.op = "remove" /\ c.pc = "removeIdentity"
    /\ identityRecords' = DeleteOne(identityRecords, "id", c.found.id)
    /\ identityCalls' = identityCalls \ {c}
    /\ UNCHANGED <<authenticationRecords, identityWrites, nextUuid, authModule,
                   identityOps, overlap>>

\* setup() of server srv up to addIdentity(): identityRecords.find() answers.
\* With no identity stored, auth.js goes on to add 'admin'; in APICore.js the
\* argument accessRights.map(...) names no variable and throws.
Bootstrap(srv) ==
    /\ identityOps < MaxIdentityOps
    /\ Cardinality(identityCalls) < MaxIdentityCalls
    /\ \A c \in identityCalls : c.op = "setup" => c.id # srv
    /\ identityOps' = identityOps + 1
    /\ overlap' = (overlap \/ Pending)
    /\ IF Len(identityRecords) = 0 /\ authModule = "auth"
       THEN identityCalls' = identityCalls \cup
               {[op |-> "setup", pc |-> "add", id |-> srv,
                 via |-> "id", body |-> AdminDetails, found |-> NoIdentity,
                 update |-> NoIdentity, newAuth |-> 0]}
       ELSE UNCHANGED identityCalls
    /\ UNCHANGED <<identityRecords, authenticationRecords, identityWrites,
                   nextUuid, authModule>>

\* setup(): addIdentity({name: 'admin', ...})
BootstrapAdd(c) ==
    /\ c.op = "setup" /\ c.pc = "add"
    /\ nextUuid + 2 <= MaxUuids
    /\ identityCalls' = identityCalls \ {c}
    /\ IF ValidateIdentitySpec(c.body, TRUE) = "success"
       THEN /\ nextUuid' = nextUuid + 2
            /\ identityWrites' = identityWrites \cup
                  AddWrites(c.body, nextUuid + 1, nextUuid + 2)
       ELSE UNCHANGED <<nextUuid, identityWrites>>
    /\ UNCHANGED <<identityRecords, authenticationRecords, authModule,
                   identityOps, overlap>>

\* ids a request can name: the stored identities', and one that is unknown
KnownIds == {identityRecords[i].id : i \in DOMAIN identityRecords}

IdentityInit ==
    /\ identityRecords = <<>>
    /\ authenticationRecords = <<>>
    /\ identityWrites = {}
    /\ identityCalls = {}
    /\ nextUuid = 0
    /\ authModule \in {"APICore", "auth"}
    /\ identityOps = 0
    /\ overlap = FALSE
    /\ response = NoResponse
    /\ removed = {}

IdentityIdle == IdentityInit /\ authModule = "APICore"

IdentityNext ==
    \/ \E details \in Bodies : AddIdentity(details)
          /\ UNCHANGED <<lifeVars, tokenVars, sessionVars, agentVars, frameVars, response, removed>>
    \/ \E w \in identityWrites : IdentityWriteLands(w)
          /\ UNCHANGED <<lifeVars, tokenVars, sessionVars, agentVars, frameVars, response, removed>>
    \/ \E id \in KnownIds \cup {0}, body \in Bodies, via \in {"me", "id"} :
          PatchIdentity(id, body, via)
          /\ UNCHANGED <<lifeVars, tokenVars, sessionVars, agentVars, frameVars, response, removed>>
    \/ \E c \in identityCalls : SetFound(c)
          /\ UNCHANGED <<lifeVars, tokenVars, sessionVars, agentVars, frameVars, response, removed>>
    \/ \E c \in identityCalls : SetAuthWritten(c)
          /\ UNCHANGED <<lifeVars, tokenVars, sessionVars, agentVars, frameVars, response, removed>>
    \/ \E c \in identityCalls : SetIdentityWritten(c)
          /\ UNCHANGED <<lifeVars, tokenVars, sessionVars, agentVars, frameVars, response, removed>>
    \/ \E id \in KnownIds \cup {0} : RemoveInvoke(id)
          /\ UNCHANGED <<lifeVars, tokenVars, sessionVars, agentVars, frameVars, response, removed>>
    \/ \E c \in identityCalls : RemoveAuth(c)
          /\ UNCHANGED <<lifeVars, tokenVars, sessionVars, agentVars, frameVars, response, removed>>
    \/ \E c \in identityCalls : RemoveIdentity(c)
          /\ UNCHANGED <<lifeVars, tokenVars, sessionVars, agentVars, frameVars, response>>
          /\ removed' = removed \cup {c.found.id}
    \/ \E srv \in Servers : Bootstrap(srv)
          /\ UNCHANGED <<lifeVars, tokenVars, sessionVars, agentVars, frameVars, response, removed>>
    \/ \E c \in identityCalls : BootstrapAdd(c)
          /\ UNCHANGED <<lifeVars, tokenVars, sessionVars, agentVars, frameVars, response, removed>>

(***************************************************************************)
(* The /identity routes of APIAuth.setup() (src/modules/APICore.js): the   *)
(* verification middleware, the gates and the service calls behind them.   *)
(***************************************************************************)
Range(seq) == {seq[i] : i \in DOMAIN seq}

\* subjects of bearer tokens: the uuids drawn so far, 0 for no valid token
Callers == 0..nextUuid

\* getVerifyMW(): req.authenticated is the stored identity the token names,
\* NoIdentity when it is left undefined
Authenticated(caller) ==
    LET i == FindOne(identityRecords, "id", caller)
    IN  IF caller = 0 \/ i = 0 THEN NoIdentity ELSE identityRecords[i]

AllowAccessAuthenticatedOnly(authenticated, functionName) ==
    authenticated # NoIdentity

\* router.use('/identity', ...) and allowAccess(req, res, functionName)
AllowAccess(authenticated, functionName) ==
    /\ authenticated # NoIdentity
    /\ functionName \in Range(authenticated.functions)

\* res.status(403); res.end(): nothing else is done
Forbidden(route, subject, authenticated) ==
    /\ identityOps < MaxIdentityOps
    /\ identityOps' = identityOps + 1
    /\ response' = [route |-> route, subject |-> subject,
                    authenticated |-> authenticated,
                    status |-> 403, read |-> {}]
    /\ UNCHANGED <<identityRecords, authenticationRecords, identityWrites,
                   identityCalls, nextUuid, authModule, overlap>>

\* POST /identity
PostIdentity(caller, details) ==
    LET authenticated == Authenticated(caller)
        r == ValidateIdentitySpec(details, TRUE)
    IN  IF AllowAccess(authenticated, "auth.identity.create")
        THEN /\ AddIdentity(details)
             /\ response' = [route |-> "POST /identity",
                             subject |-> caller,
                             authenticated |-> authenticated,
                             status |-> IF r = "success" THEN 201
                                        ELSE IF r = "requestError" THEN 400
                                        ELSE 500,
                             read |-> {}]
        ELSE Forbidden("POST /identity", caller, authenticated)

\* GET /identity: every identity record is sent
GetIdentities(caller) ==
    LET authenticated == Authenticated(caller)
    IN  IF AllowAccess(authenticated, "auth.identity.get.all")
        THEN /\ identityOps < MaxIdentityOps
             /\ identityOps' = identityOps + 1
             /\ response' = [route |-> "GET /identity",
                             subject |-> caller,
                             authenticated |-> authenticated,
                             status |-> 200, read |-> KnownIds]
             /\ UNCHANGED <<identityRecords, authenticationRecords,
                            identityWrites, identityCalls, nextUuid, authModule,
                            overlap>>
        ELSE Forbidden("GET /identity", caller, authenticated)

\* GET /identity/:identityId
GetIdentity(caller, id) ==
    LET authenticated == Authenticated(caller)
    IN  IF AllowAccess(authenticated, "auth.identity.get.all")
        THEN /\ identityOps < MaxIdentityOps
             /\ identityOps' = identityOps + 1
             /\ response' = [route |-> "GET /identity/:identityId",
                             subject |-> caller,
                             authenticated |-> authenticated,
                             status |-> IF id \in KnownIds THEN 200 ELSE 404,
                             read |-> {id} \cap KnownIds]
             /\ UNCHANGED <<identityRecords, authenticationRecords,
                            identityWrites, identityCalls, nextUuid, authModule,
                            overlap>>
        ELSE Forbidden("GET /identity/:identityId", caller, authenticated)

\* PATCH /identity/me: the only gate is router.use('/identity', ...); the
\* answer after setIdentity() has returned is not recorded
PatchMe(caller, body) ==
    LET authenticated == Authenticated(caller)
    IN  IF authenticated # NoIdentity
        THEN /\ PatchIdentity(authenticated.id, body, "me")
             /\ response' = [route |-> "PATCH /identity/me",
                             subject |-> caller,
                             authenticated |-> authenticated,
                             status |-> IF MeRejectsFunctions(body) THEN 403 ELSE 0,
                             read |-> {}]
        ELSE Forbidden("PATCH /identity/me", caller, authenticated)

\* PATCH /identity/:identityId up to the findOne of setIdentity()
PatchIdentityById(caller, id, body) ==
    LET authenticated == Authenticated(caller)
    IN  IF AllowAccess(authenticated, "auth.identity.update.all")
        THEN /\ PatchIdentity(id, body, "id")
             /\ response' = [route |-> "PATCH /identity/:identityId",
                             subject |-> caller,
                             authenticated |-> authenticated,
                             status |-> 0, read |-> {}]
        ELSE Forbidden("PATCH /identity/:identityId", caller, authenticated)

\* DELETE /identity/:identityId up to the first removeOne of removeIdentity()
DeleteIdentity(caller, id) ==
    LET authenticated == Authenticated(caller)
    IN  IF AllowAccess(authenticated, "auth.identity.delete.all")
        THEN /\ RemoveInvoke(id)
             /\ response' = [route |-> "DELETE /identity/:identityId",
                             subject |-> caller,
                             authenticated |-> authenticated,
                             status |-> 0, read |-> {}]
        ELSE Forbidden("DELETE /identity/:identityId", caller, authenticated)

\* identities another component creates by calling addIdentity()
Seeds == {AdminDetails,
          [name |-> "alice", auth |-> "valid", functions |-> "create"]}

\* request bodies sent to the routes
RouteBodies == {b \in Bodies : b.auth # "invalid"}

ApiNext ==
    \/ \E details \in Seeds : AddIdentity(details) /\ response' = NoResponse
          /\ UNCHANGED <<lifeVars, tokenVars, sessionVars, agentVars, frameVars, removed>>
    \/ \E caller \in Callers, details \in RouteBodies : PostIdentity(caller, details)
          /\ UNCHANGED <<lifeVars, tokenVars, sessionVars, agentVars, frameVars, removed>>
    \/ \E caller \in Callers : GetIdentities(caller)
          /\ UNCHANGED <<lifeVars, tokenVars, sessionVars, agentVars, frameVars, removed>>
    \/ \E caller \in Callers, id \in KnownIds \cup {0} : GetIdentity(caller, id)
          /\ UNCHANGED <<lifeVars, tokenVars, sessionVars, agentVars, frameVars, removed>>
    \/ \E caller \in Callers, body \in RouteBodies : PatchMe(caller, body)
          /\ UNCHANGED <<lifeVars, tokenVars, sessionVars, agentVars, frameVars, removed>>
    \/ \E caller \in Callers, id \in KnownIds \cup {0}, body \in RouteBodies :
          PatchIdentityById(caller, id, body)
          /\ UNCHANGED <<lifeVars, tokenVars, sessionVars, agentVars, frameVars, removed>>
    \/ \E caller \in Callers, id \in KnownIds \cup {0} : DeleteIdentity(caller, id)
          /\ UNCHANGED <<lifeVars, tokenVars, sessionVars, agentVars, frameVars, removed>>
    \/ \E w \in identityWrites : IdentityWriteLands(w)
          /\ UNCHANGED <<lifeVars, tokenVars, sessionVars, agentVars, frameVars, response, removed>>
    \/ \E c \in identityCalls : SetFound(c)
          /\ UNCHANGED <<lifeVars, tokenVars, sessionVars, agentVars, frameVars, response, removed>>
    \/ \E c \in identityCalls : SetAuthWritten(c)
          /\ UNCHANGED <<lifeVars, tokenVars, sessionVars, agentVars, frameVars, response, removed>>
    \/ \E c \in identityCalls : SetIdentityWritten(c)
          /\ UNCHANGED <<lifeVars, tokenVars, sessionVars, agentVars, frameVars, response, removed>>
    \/ \E c \in identityCalls : RemoveAuth(c)
          /\ UNCHANGED <<lifeVars, tokenVars, sessionVars, agentVars, frameVars, response, removed>>
    \/ \E c \in identityCalls : RemoveIdentity(c)
          /\ UNCHANGED <<lifeVars, tokenVars, sessionVars, agentVars, frameVars, response>>
          /\ removed' = removed \cup {c.found.id}

(***************************************************************************)
(* Agent registry (src/modules/providers/core/client/module.js).  Its      *)
(* token service is the TokenGenerator modelled above.                     *)
(***************************************************************************)
NoClient == [id |-> "", tokenId |-> 0]

NoRegistryVerify == [kid |-> 0, state |-> "none", client |-> NoClient]

\* getClient(clientId): the document, or NoClient for null
GetClient(clientId) ==
    LET i == FindOne(clientRecords, "id", clientId)
    IN  IF i = 0 THEN NoClient ELSE clientRecords[i]

\* no call or write of the registry or of its token service is pending
AgentQuiet ==
    /\ agentCalls = {} /\ clientWrites = {}
    /\ newTokenCalls = {} /\ tokenWrites = {}

\* the lowest call number not in use
FreeCall ==
    Min({n \in 1..MaxAgentCalls : \A c \in agentCalls : c.n # n})

\* provisionClient() calls that have not called newToken() yet
AwaitingToken ==
    {c \in agentCalls : c.op = "provision" /\ c.pc \in {"getClient", "insert"}}

\* provisionClient(clientId) up to `await getClient(clientId)`
ProvisionInvoke(a) ==
    /\ Cardinality(agentCalls) < MaxAgentCalls
    /\ nextToken + Cardinality(AwaitingToken) < MaxTokens
    /\ agentCalls' = agentCalls \cup
          {[n |-> FreeCall, op |-> "provision", pc |-> "getClient", agent |-> a,
            record |-> NoClient, token |-> 0, began |-> Len(provisioned)]}
    /\ registryVerified' = NoRegistryVerify
    /\ UNCHANGED <<clientRecords, clientWrites, provisioned, tokenVars>>
    /\ racing' = (racing \/ ~AgentQuiet)

\* getClient answers: an existing client goes on to tokens.newToken(clientId),
\* an absent one is inserted first.
ProvisionFound(c) ==
    /\ c.op = "provision" /\ c.pc = "getClient"
    /\ LET client == GetClient(c.agent)
       IN  IF client # NoClient
           THEN /\ NewTokenInvoke(c.agent)
                /\ agentCalls' = (agentCalls \ {c}) \cup
                      {[c EXCEPT !.pc = "newToken", !.record = client,
                                 !.token = nextToken + 1]}
           ELSE /\ agentCalls' = (agentCalls \ {c}) \cup
                      {[c EXCEPT !.pc = "insert",
                                 !.record = [id |-> c.agent, tokenId |-> 0]]}
                /\ UNCHANGED tokenVars
    /\ registryVerified' = NoRegistryVerify
    /\ UNCHANGED <<clientRecords, clientWrites, provisioned>>
    /\ UNCHANGED racing

\* clientRecords.insertOne(record) is applied, and tokens.newToken(clientId)
\* is called.
ProvisionInserted(c) ==
    /\ c.op = "provision" /\ c.pc = "insert"
    /\ clientRecords' = Append(clientRecords, c.record)
    /\ NewTokenInvoke(c.agent)
    /\ agentCalls' = (agentCalls \ {c}) \cup
          {[c EXCEPT !.pc = "newToken", !.token = nextToken + 1]}
    /\ registryVerified' = NoRegistryVerify
    /\ UNCHANGED <<clientWrites, provisioned>>
    /\ UNCHANGED racing

\* newToken() has returned: record.tokenId is set, replaceOne is called and
\* not awaited, and the token is returned.
ProvisionDone(c) ==
    /\ c.op = "provision" /\ c.pc = "newToken"
    /\ \A t \in newTokenCalls : t.id # c.token
    /\ clientWrites' = clientWrites \cup
          {[id |-> c.record.id, doc |-> [c.record EXCEPT !.tokenId = c.token]]}
    /\ provisioned' = Append(provisioned, [kid |-> c.token, agent |-> c.agent,
                                           began |-> c.began])
    /\ agentCalls' = agentCalls \ {c}
    /\ registryVerified' = NoRegistryVerify
    /\ UNCHANGED <<clientRecords, tokenVars>>
    /\ UNCHANGED racing

\* The data store applies the replaceOne of provisionClient().
ClientWriteLands(w) ==
    /\ clientRecords' = ReplaceOne(clientRecords, "id", w.id, w.doc)
    /\ clientWrites' = clientWrites \ {w}
    /\ registryVerified' = NoRegistryVerify
    /\ UNCHANGED <<agentCalls, provisioned, tokenVars>>
    /\ UNCHANGED racing

\* deprovisionClient(clientId) up to clientRecords.deleteOne: getClient
\* answers, and false is returned when there is no such client.
DeprovisionInvoke(a) ==
    /\ Cardinality(agentCalls) < MaxAgentCalls
    /\ IF GetClient(a) = NoClient
       THEN UNCHANGED agentCalls
       ELSE agentCalls' = agentCalls \cup
               {[n |-> FreeCall, op |-> "deprovision", pc |-> "deleteClient",
                 agent |-> a, record |-> GetClient(a), token |-> 0,
                 began |-> 0]}
    /\ registryVerified' = NoRegistryVerify
    /\ UNCHANGED <<clientRecords, clientWrites, provisioned, tokenVars>>
    /\ racing' = (racing \/ ~AgentQuiet)

\* clientRecords.deleteOne({id: client.id}) is applied
DeprovisionClientDeleted(c) ==
    /\ c.op = "deprovision" /\ c.pc = "deleteClient"
    /\ clientRecords' = DeleteOne(clientRecords, "id", c.record.id)
    /\ agentCalls' = IF c.record.tokenId # 0
                     THEN (agentCalls \ {c}) \cup {[c EXCEPT !.pc = "deleteToken"]}
                     ELSE agentCalls \ {c}
    /\ registryVerified' = NoRegistryVerify
    /\ UNCHANGED <<clientWrites, provisioned, tokenVars>>
    /\ UNCHANGED racing

\* tokenRecords.deleteOne({id: client.tokenId}) is applied
DeprovisionTokenDeleted(c) ==
    /\ c.op = "deprovision" /\ c.pc = "deleteToken"
    /\ tokenCollection' = DeleteOne(tokenCollection, "id", c.record.tokenId)
    /\ agentCalls' = agentCalls \ {c}
    /\ registryVerified' = NoRegistryVerify
    /\ UNCHANGED <<clientRecords, clientWrites, provisioned, publicKey,
                   keyUpdateInterval, nextToken, newTokenCalls, tokenWrites,
                   tokens, expired, verified>>
    /\ UNCHANGED racing

\* messages['token.refresh'] from an agent of the registry, up to the findOne
\* of newToken(): the new token goes to the agent when newToken() returns.
TokenRefresh(a) ==
    /\ GetClient(a) # NoClient
    /\ NewTokenInvoke(a)
    /\ registryVerified' = NoRegistryVerify
    /\ UNCHANGED <<clientRecords, clientWrites, agentCalls, provisioned>>
    /\ racing' = (racing \/ ~AgentQuiet)

\* newToken(): findOne answers (a step of the token service)
AgentTokenFound(t) ==
    /\ NewTokenFound(t)
    /\ registryVerified' = NoRegistryVerify
    /\ UNCHANGED <<clientRecords, clientWrites, agentCalls, provisioned>>
    /\ UNCHANGED racing

\* The data store applies a write of newToken().
AgentTokenWriteLands(w) ==
    /\ TokenWriteLands(w)
    /\ registryVerified' = NoRegistryVerify
    /\ UNCHANGED <<clientRecords, clientWrites, agentCalls, provisioned>>
    /\ UNCHANGED racing

\* verifyToken(token) of the registry up to getClient: tokens.verifyToken
\* answers.
RegistryVerifyInvoke(i) ==
    /\ Cardinality(agentCalls) < MaxAgentCalls
    /\ LET r == VerifyToken(tokens[i], tokenCollection)
       IN  IF r.success
           THEN /\ agentCalls' = agentCalls \cup
                      {[n |-> FreeCall, op |-> "verify", pc |-> "getClient",
                        agent |-> r.subject, record |-> NoClient,
                        token |-> tokens[i].kid, began |-> 0]}
                /\ registryVerified' = NoRegistryVerify
           ELSE /\ registryVerified' =
                      [kid |-> tokens[i].kid, state |-> "authenticationfailed",
                       client |-> NoClient]
                /\ UNCHANGED agentCalls
    /\ UNCHANGED <<clientRecords, clientWrites, provisioned, tokenVars>>
    /\ racing' = (racing \/ ~AgentQuiet)

\* verifyToken(): getClient(r.subject) answers and success is returned
RegistryVerifyFound(c) ==
    /\ c.op = "verify" /\ c.pc = "getClient"
    /\ registryVerified' = [kid |-> c.token, state |-> "success",
                            client |-> GetClient(c.agent)]
    /\ agentCalls' = agentCalls \ {c}
    /\ UNCHANGED <<clientRecords, clientWrites, provisioned, tokenVars>>
    /\ UNCHANGED racing

AgentInit ==
    /\ clientRecords = <<>>
    /\ clientWrites = {}
    /\ agentCalls = {}
    /\ provisioned = <<>>
    /\ registryVerified = NoRegistryVerify
    /\ racing = FALSE

AgentNext ==
    \/ \E a \in Agents : ProvisionInvoke(a)
          /\ UNCHANGED <<lifeVars, sessionVars, identityVars, frameVars>>
    \/ \E c \in agentCalls : ProvisionFound(c)
          /\ UNCHANGED <<lifeVars, sessionVars, identityVars, frameVars>>
    \/ \E c \in agentCalls : ProvisionInserted(c)
          /\ UNCHANGED <<lifeVars, sessionVars, identityVars, frameVars>>
    \/ \E c \in agentCalls : ProvisionDone(c)
          /\ UNCHANGED <<lifeVars, sessionVars, identityVars, frameVars>>
    \/ \E w \in clientWrites : ClientWriteLands(w)
          /\ UNCHANGED <<lifeVars, sessionVars, identityVars, frameVars>>
    \/ \E a \in Agents : DeprovisionInvoke(a)
          /\ UNCHANGED <<lifeVars, sessionVars, identityVars, frameVars>>
    \/ \E c \in agentCalls : DeprovisionClientDeleted(c)
          /\ UNCHANGED <<lifeVars, sessionVars, identityVars, frameVars>>
    \/ \E c \in agentCalls : DeprovisionTokenDeleted(c)
          /\ UNCHANGED <<lifeVars, sessionVars, identityVars, frameVars>>
    \/ \E a \in Agents : TokenRefresh(a)
          /\ UNCHANGED <<lifeVars, sessionVars, identityVars, frameVars>>
    \/ \E t \in newTokenCalls : AgentTokenFound(t)
          /\ UNCHANGED <<lifeVars, sessionVars, identityVars, frameVars>>
    \/ \E w \in tokenWrites : AgentTokenWriteLands(w)
          /\ UNCHANGED <<lifeVars, sessionVars, identityVars, frameVars>>
    \/ \E i \in DOMAIN tokens : RegistryVerifyInvoke(i)
          /\ UNCHANGED <<lifeVars, sessionVars, identityVars, frameVars>>
    \/ \E c \in agentCalls : RegistryVerifyFound(c)
          /\ UNCHANGED <<lifeVars, sessionVars, identityVars, frameVars>>

(***************************************************************************)
(* Message routing of a session: the 'message' and 'close' listeners of    *)
(* ep_wsConnect (src/modules/APICore.js) and the message handlers of the   *)
(* client provider (src/modules/providers/core/client/module.js).          *)
(***************************************************************************)
\* frames the listener logs and drops
Ignored == {"not json", "no type", "no dot in type", "unknown provider",
            "unknown message"}

\* frames on which the listener itself throws: JSON.parse('null') is null
\* and null.type is a TypeError; the type 1 has no match()
Escaping == {"null", "type is 1"}

\* a connection.report frame whose capabilities carry no messages array:
\* the handler throws inside the try block
Throwing == {"report without messages"}

FrameKinds == Ignored \cup Escaping \cup Throwing
                 \cup {"client.state", "client.token.refresh"}

\* what an agent reports in a client.state message
ReportedStates == {"running", "stopped by user"}

NoFrame == [id |-> 0, n |-> 0, frame |-> "none", outcome |-> "none"]

\* messages['state']: client.state = message.state changes the object that
\* getClient() returned; nothing is written to the collection
StateHandler(stored, reported) == stored

\* ws.on('close'): `client` is the promise of getClient(), the state is set
\* as a property of that promise; the collection keeps what it had
CloseListener(stored) == stored

\* ep_wsConnect registers the socket and its listeners
FrameAccept(c) ==
    /\ WsFound(c)
    /\ clientOf' = [clientOf EXCEPT ![c.id] = c.cred]
    /\ UNCHANGED <<frames, lastFrame, pending, applied, clientState>>

\* ws.on('message') for one frame of an accepted connection, up to the first
\* await of the handler it invokes.  An exception that leaves the listener
\* is an uncaught exception: the process of the server ends.
OnMessage(id, frame, reported) ==
    /\ frames < MaxFrames
    /\ id \in sockets \cap openSockets
    /\ down[owner[id]] = "up"
    /\ frames' = frames + 1
    /\ UNCHANGED <<applied, clientOf, clientState>>
    /\ UNCHANGED <<connectionRecords, nextConnection, sockets, connectionWrites,
                   rejected, duplicates, sent, missed, owner, sendResult>>
    /\ \/ /\ frame \in Ignored
          /\ lastFrame' = [id |-> id, n |-> frames + 1, frame |-> frame,
                           outcome |-> "ignored"]
          /\ UNCHANGED <<pending, tokenVars, connects, openSockets, heartbeats,
                         cleanups, down>>
       \/ /\ frame \in Throwing
          /\ lastFrame' = [id |-> id, n |-> frames + 1, frame |-> frame,
                           outcome |-> "caught"]
          /\ UNCHANGED <<pending, tokenVars, connects, openSockets, heartbeats,
                         cleanups, down>>
       \/ /\ frame \in Escaping
          /\ lastFrame' = [id |-> id, n |-> frames + 1, frame |-> frame,
                           outcome |-> "escaped"]
          /\ down' = [down EXCEPT ![owner[id]] = "crashed"]
          /\ connects' = {c \in connects : c.server # owner[id]}
          /\ cleanups' = cleanups \ Owned(owner[id])
          /\ heartbeats' = heartbeats \ Owned(owner[id])
          /\ openSockets' = openSockets \ Owned(owner[id])
          /\ pending' = {h \in pending : owner[h.id] # owner[id]}
          /\ newTokenCalls' =
                {t \in newTokenCalls :
                    \A h \in pending : h.token = t.id => owner[h.id] # owner[id]}
          /\ UNCHANGED <<tokenCollection, publicKey, keyUpdateInterval,
                         nextToken, tokenWrites, tokens, expired, verified>>
       \/ /\ frame = "client.state"
          /\ lastFrame' = [id |-> id, n |-> frames + 1, frame |-> frame,
                           outcome |-> "invoked"]
          /\ pending' = pending \cup
                {[id |-> id, n |-> frames + 1, kind |-> "state", token |-> 0,
                  reported |-> reported]}
          /\ UNCHANGED <<tokenVars, connects, openSockets, heartbeats,
                         cleanups, down>>
       \/ /\ frame = "client.token.refresh"
          /\ NewTokenInvoke(clientOf[id])
          /\ lastFrame' = [id |-> id, n |-> frames + 1, frame |-> frame,
                           outcome |-> "invoked"]
          /\ pending' = pending \cup
                {[id |-> id, n |-> frames + 1, kind |-> "token.refresh",
                  token |-> nextToken + 1, reported |-> "none"]}
          /\ UNCHANGED <<connects, openSockets, heartbeats, cleanups, down>>

\* messages['token.refresh'] after newToken() has returned: the token is
\* sent on the connection (a socket that has closed carries nothing)
TokenRefreshFound(h) ==
    /\ h.kind = "token.refresh"
    /\ \E t \in newTokenCalls : t.id = h.token /\ NewTokenFound(t)
    /\ pending' = pending \ {h}
    /\ IF h.id \in openSockets
       THEN /\ sent' = [sent EXCEPT ![h.id] = Append(@, "client.token.issue")]
            /\ applied' = Append(applied, [id |-> h.id, n |-> h.n])
       ELSE UNCHANGED <<sent, applied>>
    /\ UNCHANGED <<frames, lastFrame, clientOf, clientState>>
    /\ UNCHANGED <<connectionRecords, nextConnection, connects, sockets,
                   openSockets, heartbeats, cleanups, connectionWrites,
                   rejected, duplicates, missed, owner, down, sendResult>>

\* messages['state'] after getClient() has answered
StateHandlerFound(h) ==
    /\ h.kind = "state"
    /\ pending' = pending \ {h}
    /\ clientState' = [clientState EXCEPT
                          ![clientOf[h.id]] = StateHandler(@, h.reported)]
    /\ UNCHANGED <<frames, lastFrame, applied, clientOf>>

\* the socket of a connection closes: ws.on('close') runs where it exists
FrameClose(id) ==
    /\ WsClose(id)
    /\ clientState' = IF id \in sockets
                      THEN [clientState EXCEPT
                               ![clientOf[id]] = CloseListener(@)]
                      ELSE clientState
    /\ UNCHANGED <<frames, lastFrame, pending, applied, clientOf>>

FrameInit ==
    /\ frames = 0
    /\ lastFrame = NoFrame
    /\ pending = {}
    /\ applied = <<>>
    /\ clientOf = [n \in Connections |-> "none"]
    /\ clientState = [a \in Agents |-> "none"]

\* the sessions of one server with its agents' frames
FrameNext ==
    \/ \E cred \in Agents : WsConnect(1, cred)
          /\ UNCHANGED <<lifeVars, tokenVars, identityVars, agentVars,
                         sendResult, frameVars>>
    \/ \E c \in connects : WsVerified(c)
          /\ UNCHANGED <<lifeVars, tokenVars, identityVars, agentVars,
                         sendResult, frameVars>>
    \/ \E c \in connects : FrameAccept(c)
          /\ UNCHANGED <<lifeVars, tokenVars, identityVars, agentVars,
                         sendResult>>
    \/ \E w \in connectionWrites : ConnectionWriteLands(w)
          /\ UNCHANGED <<lifeVars, tokenVars, identityVars, agentVars,
                         sendResult, frameVars>>
    \/ \E id \in openSockets : FrameClose(id)
          /\ UNCHANGED <<lifeVars, tokenVars, identityVars, agentVars,
                         sendResult>>
    \/ \E id \in cleanups : CleanupFound(id)
          /\ UNCHANGED <<lifeVars, tokenVars, identityVars, agentVars,
                         sendResult, frameVars>>
    \/ \E id \in sockets, frame \in FrameKinds, reported \in ReportedStates :
          OnMessage(id, frame, reported)
          /\ UNCHANGED <<lifeVars, identityVars, agentVars>>
    \/ \E h \in pending : TokenRefreshFound(h)
          /\ UNCHANGED <<lifeVars, identityVars, agentVars>>
    \/ \E h \in pending : StateHandlerFound(h)
          /\ UNCHANGED <<lifeVars, tokenVars, sessionVars, identityVars,
                         agentVars>>
    \/ \E w \in tokenWrites : TokenWriteLands(w)
          /\ UNCHANGED <<lifeVars, sessionVars, identityVars, agentVars,
                         frameVars>>

(***************************************************************************)
(* Specifications                                                          *)
(***************************************************************************)
LifeIdle == LifeInit /\ dbConfigured /\ landmineAsync

Init == LifeInit /\ TokenIdle /\ SessionInit /\ IdentityIdle /\ AgentInit /\ FrameInit

Next == LifeNext

Spec == Init /\ [][Next]_vars

\* the services other than the lifecycle supervisor take no step
RestIdle == UNCHANGED <<tokenVars, sessionVars, identityVars, agentVars, frameVars>>

\* The event loop runs every continuation that is ready, every hook promise
\* settles, and the database and the listener answer every request.
LifeFairness ==
    /\ WF_vars(RestIdle /\ \E c \in Calls : SetupStore(c))
    /\ WF_vars(RestIdle /\ \E c \in Calls : StartProceed(c))
    /\ WF_vars(RestIdle /\ \E c \in Calls : StartConnect(c))
    /\ WF_vars(RestIdle /\ \E c \in Calls : StartListenRejected(c))
    /\ WF_vars(RestIdle /\ \E c \in Calls : StartListening(c))
    /\ WF_vars(RestIdle /\ \E c \in Calls : HookInvoke(c))
    /\ WF_vars(RestIdle /\ \E c \in Calls : \E k \in Components : HookSettle(c, k))
    /\ WF_vars(RestIdle /\ \E c \in Calls : StartHooksDone(c))
    /\ WF_vars(RestIdle /\ \E c \in Calls : StartReportFind(c))
    /\ WF_vars(RestIdle /\ \E c \in Calls : StartReportWrite(c))
    /\ WF_vars(RestIdle /\ \E c \in Calls : StopHooksDone(c))
    /\ WF_vars(RestIdle /\ \E c \in Calls : StopClosed(c))
    /\ WF_vars(RestIdle /\ \E c \in Calls : StopFinalWrite(c))
    /\ WF_vars(RestIdle /\ \E c \in Calls : StopDiscard(c))

FairSpec == Spec /\ LifeFairness

InitToken == LifeIdle /\ TokenInit /\ SessionInit /\ IdentityIdle /\ AgentInit /\ FrameInit

NextToken == TokenNext

SpecToken == InitToken /\ [][NextToken]_vars

InitSession == LifeIdle /\ TokenIdle /\ SessionInit /\ IdentityIdle /\ AgentInit /\ FrameInit

NextSession == SessionNext

SpecSession == InitSession /\ [][NextSession]_vars

SessionRestIdle ==
    UNCHANGED <<lifeVars, tokenVars, identityVars, agentVars, frameVars, sendResult>>

\* The data store answers every request and applies every write, and the
\* event loop of a running server runs every continuation that is ready.
SessionFairness ==
    /\ WF_vars(SessionRestIdle /\ \E c \in connects : WsVerified(c))
    /\ WF_vars(SessionRestIdle /\ \E c \in connects : WsFound(c))
    /\ WF_vars(SessionRestIdle /\ \E w \in connectionWrites : ConnectionWriteLands(w))
    /\ WF_vars(SessionRestIdle /\ \E id \in cleanups : CleanupFound(id))

FairSpecSession == SpecSession /\ SessionFairness

SpecHeartbeat == InitSession /\ [][HeartbeatNext]_vars

InitIdentity == LifeIdle /\ TokenIdle /\ SessionInit /\ IdentityInit /\ AgentInit /\ FrameInit

NextIdentity == IdentityNext

SpecIdentity == InitIdentity /\ [][NextIdentity]_vars

InitApi == LifeIdle /\ TokenIdle /\ SessionInit /\ IdentityIdle /\ AgentInit /\ FrameInit

NextApi == ApiNext

SpecApi == InitApi /\ [][NextApi]_vars

InitAgent == LifeIdle /\ TokenIdle /\ SessionInit /\ IdentityIdle /\ AgentInit /\ FrameInit

NextAgent == AgentNext

SpecAgent == InitAgent /\ [][NextAgent]_vars

InitFrames == LifeIdle /\ TokenIdle /\ SessionInit /\ IdentityIdle /\ AgentInit /\ FrameInit

SpecFrames == InitFrames /\ [][FrameNext]_vars

(***************************************************************************)
(* Properties of the lifecycle supervisor                                  *)
(***************************************************************************)
SettledStatus == {"resolved", "rejected"}

C5_OncePerLifetime ==
    \A k \in Components : hookCalls[k]["onShutdown"] <= 1

\* C5 amended: each component's onShutdown hook is called at most once for
\* each time the instance became READY, however many stop() calls are made.
C5_OncePerReady ==
    \A k \in Components : hookCalls[k]["onShutdown"] <= readyCount

C5_Witness ==
    /\ last = "stopIgnored" /\ state = STOPPING
    /\ \A k \in Components : hookCalls[k]["onShutdown"] = 1

PostHookPcs == {"reportFind", "reportWrite", "closing", "finalWrite", "discard"}

PendingHooks(k, h) ==
    Cardinality({c \in Calls : /\ c.pc = "hooks" /\ HookOf(c.kind) = h
                               /\ c.hooks[k] = "pending"})

C6_Recorded ==
    /\ \A c \in Calls :
          c.pc \in PostHookPcs =>
             \A k \in Components :
                HasHook(k, HookOf(c.kind)) => c.hooks[k] \in SettledStatus
    /\ \A k \in Components : \A h \in HookNames :
          IF HookOutcome(k, h) = "rejected"
          THEN errors[k][h] = hookCalls[k][h] - PendingHooks(k, h)
          ELSE errors[k][h] = 0

RejectedIn(kind) ==
    \E c \in Calls : /\ c.kind = kind /\ c.pc = "hooks"
                     /\ \E k \in Components : c.hooks[k] = "rejected"

C8_StoppedRowFinal ==
    lastStop.written =>
        (row.exists /\ ~row.live /\ row.reason = lastStop.reason)

\* C9: a stop() call made in a state other than READY changes nothing: the
\* state stays, no event fires, no hook is called, no record is written.
C9_StopIgnored ==
    [][(last' \in {"stop", "stopIgnored"} /\ state # READY) =>
          /\ last' = "stopIgnored"
          /\ fired' = <<>>
          /\ UNCHANGED <<state, error, calls, serverVars, hookVars, reportVars>>]_vars

C9_Witness == last = "stopIgnored" /\ state = STOPPED

(***************************************************************************)
(* Properties of the token service                                         *)
(***************************************************************************)
\* the newToken() call of tokens[j] was made after tokens[i] was returned,
\* for the same subject
Successive(i, j) ==
    /\ i < j
    /\ tokens[i].sub = tokens[j].sub
    /\ tokens[j].begun >= i

\* tokens[i] is the latest issuance of its subject and no other is under way
Latest(i) ==
    /\ \A j \in DOMAIN tokens : j > i => tokens[j].sub # tokens[i].sub
    /\ \A c \in newTokenCalls : c.subject # tokens[i].sub

\* C3: when two successive issuances for one (non-empty) subject have
\* completed and their writes have been applied, a verification of the first
\* token fails with noRecordError or invalidRecordError and a verification
\* of the second token (unexpired and not itself followed by another
\* issuance) succeeds.
C3_ReissueRevokes ==
    \A i, j \in DOMAIN tokens :
       (Successive(i, j) /\ Truthy(tokens[i].sub) /\ tokenWrites = {}) =>
          /\ verified.kid = tokens[i].kid =>
                verified.status \in {"noRecordError", "invalidRecordError"}
          /\ (verified.kid = tokens[j].kid /\ Latest(j)
                 /\ tokens[j].kid \notin expired) => verified.success

\* C4: a verification of a token returned by newToken(sub), made before its
\* expiry and before any later issuance for sub, succeeds and reports sub.
C4_RoundTrip ==
    \A i \in DOMAIN tokens :
       (verified.kid = tokens[i].kid /\ Latest(i)
           /\ tokens[i].kid \notin expired) =>
          (verified.success /\ verified.subject = tokens[i].sub)

(***************************************************************************)
(* Properties of the session manager                                       *)
(***************************************************************************)
AliveRecords(a) ==
    {i \in DOMAIN connectionRecords :
        connectionRecords[i].clientId = a /\ connectionRecords[i].isAlive}

\* C1: at every instant the connections collection holds at most one record
\* with isAlive = true for each agent.
C1_OneAlivePerAgent ==
    \A a \in Agents : Cardinality(AliveRecords(a)) <= 1

(***************************************************************************)
(* Properties of the lifecycle supervisor (continued)                      *)
(***************************************************************************)
\* C10: a setup() call is accepted (the state becomes INITIALIZING and the
\* event fires) only when the state is INSTANCED.
C10_SetupOnlyFromInstanced ==
    [][last' = "setup" => state = INSTANCED]_vars

\* C11: every change of the lifecycle state, a change to ERROR included,
\* fires exactly one event, the one named after the new state.
C11_OneEventPerChange ==
    [][state' # state => fired' = <<EventName(state')>>]_vars

C13_MeKeepsFunctions ==
    [][\A c \in identityCalls :
          (c.op = "set" /\ c.via = "me" /\ c.pc = "writeIdentity"
              /\ c \notin identityCalls')
          => \A i \in DOMAIN identityRecords :
                identityRecords'[i].functions = identityRecords[i].functions]_vars

\* C14: no two stored identity records have the same name.
C14_UniqueNames ==
    \A i, j \in DOMAIN identityRecords :
        i # j => identityRecords[i].name # identityRecords[j].name

\* the authentication records that the authId of identity record i names
AuthsOf(i) ==
    {j \in DOMAIN authenticationRecords :
        authenticationRecords[j].id = identityRecords[i].authId}

\* C15: when the addIdentity, setIdentity and removeIdentity calls were made
\* one after the other, all have returned and their writes have been
\* applied, every stored identity's authId names exactly one authentication
\* record.
C15_AuthResolves ==
    (~overlap /\ identityCalls = {} /\ identityWrites = {})
    => \A i \in DOMAIN identityRecords : Cardinality(AuthsOf(i)) = 1

\* C16: the registry's verifyToken never returns success without a client,
\* also when every call was made with no other call or write pending: a
\* token that verifies at the token service while no agent record exists for
\* its subject is answered with a failure.
C16_NoSuccessWithoutAgent ==
    (registryVerified.state = "success" /\ ~racing)
    => registryVerified.client # NoClient

\* the call c returns in this step
Returns(c) == \A d \in agentCalls' : d.n # c.n

\* C17: when deprovisionClient(a) returns, every call so far having been
\* made with no other call or write pending, there is no agent record for a
\* and no token issued for a verifies.
C17_DeprovisionRevokes ==
    [][\A c \in agentCalls :
          (c.op = "deprovision" /\ Returns(c) /\ ~racing)
          => /\ FindOne(clientRecords', "id", c.agent) = 0
             /\ \A i \in DOMAIN tokens :
                   tokens[i].sub = c.agent
                   => ~VerifyToken(tokens[i], tokenCollection').success]_vars

\* the token that the i-th completed provisionClient() returned
ProvisionedToken(i) ==
    tokens[CHOOSE k \in DOMAIN tokens : tokens[k].kid = provisioned[i].kid]

\* C18: when provisionClient(a) has returned T1, was called again afterwards
\* and has returned T2, and nothing is pending, T1 does not verify; and T2
\* verifies for agent a as long as a's record is stored and T2 is the latest
\* token issued for a.
C18_SecondProvisionRevokesFirst ==
    \A i, j \in DOMAIN provisioned :
       (/\ i < j /\ provisioned[i].agent = provisioned[j].agent
        /\ provisioned[j].began >= i
        /\ AgentQuiet)
       => /\ ~VerifyToken(ProvisionedToken(i), tokenCollection).success
          /\ (/\ GetClient(provisioned[j].agent) # NoClient
              /\ \A k \in DOMAIN tokens :
                    tokens[k].sub = provisioned[j].agent
                    => tokens[k].kid <= provisioned[j].kid)
             => VerifyToken(ProvisionedToken(j), tokenCollection).success

\* C19: there is never more than one agent record with the same id.
C19_OneRecordPerAgent ==
    \A a \in Agents :
       Cardinality({i \in DOMAIN clientRecords : clientRecords[i].id = a}) <= 1

\* C20: once cleanup() has run for a connection whose token failed
\* verification, the connection is closed, no message was sent on it, no
\* session record is stored for it and it has no heartbeat ticker.
C20_RejectedIsClosed ==
    \A id \in rejected :
       id \notin cleanups =>
          /\ id \notin openSockets
          /\ id \notin Accepted
          /\ FindOne(connectionRecords, "id", id) = 0
          /\ id \notin heartbeats

C27_SetupFailureIsError ==
    [][(/\ \E c \in Calls : /\ c.pc = "setupStore"
                            /\ CopiesIn(c, calls') < CopiesIn(c, calls)
        /\ state' # INITIALIZED)
          => (state' = ERROR /\ error' = "setup")]_vars

\* C28: ERROR is terminal: a setup(), start() or stop() call made when the
\* state is ERROR leaves the state at ERROR.
C28_ErrorIsTerminal ==
    [][(/\ state = ERROR
        /\ last' \in {"setup", "setupRejected", "start", "stop", "stopIgnored"})
          => state' = ERROR]_vars

(***************************************************************************)
(* Properties of the token service (continued)                             *)
(***************************************************************************)
\* C23: every verification record holds the public key that pairs with the
\* private key which signed its token, so a token (of a non-empty subject)
\* whose record is still in the collection and which has not expired verifies
\* successfully, however many times the keys were regenerated since.
C23_RotationKeepsTokens ==
    \A i \in DOMAIN tokens :
       LET r == FindOne(tokenCollection, "id", tokens[i].kid)
       IN  r # 0 =>
             /\ tokenCollection[r].key = tokens[i].key
             /\ (verified.kid = tokens[i].kid /\ Truthy(tokens[i].sub)
                    /\ tokens[i].kid \notin expired) => verified.success

C23_Witness ==
    \E i \in DOMAIN tokens :
       /\ verified.kid = tokens[i].kid /\ verified.success
       /\ keyUpdateInterval = "active"
       /\ publicKey > tokens[i].key

(***************************************************************************)
(* Properties of the identity service (continued)                          *)
(***************************************************************************)
\* C24: no setIdentity call changes an identity's name: the step in which a
\* setIdentity call writes the identity record leaves every stored name as it
\* was (checked for calls made one after the other).
C24_SetKeepsName ==
    [][\A c \in identityCalls :
          (c.op = "set" /\ c.pc = "writeIdentity" /\ c \notin identityCalls'
              /\ ~overlap)
          => \A i \in DOMAIN identityRecords \cap DOMAIN identityRecords' :
                identityRecords'[i].name = identityRecords[i].name]_vars

\* the function each gated /identity route asks for
RouteFunction ==
    [r \in {"POST /identity", "GET /identity", "GET /identity/:identityId",
            "PATCH /identity/:identityId", "DELETE /identity/:identityId"} |->
       CASE r = "POST /identity" -> "auth.identity.create"
         [] r \in {"GET /identity", "GET /identity/:identityId"} ->
               "auth.identity.get.all"
         [] r = "PATCH /identity/:identityId" -> "auth.identity.update.all"
         [] OTHER -> "auth.identity.delete.all"]

\* C25: a request to an /identity route other than /identity/me, made without
\* authentication or by a caller whose stored identity lacks the route's
\* function, is answered 403, reads out no record and changes neither the
\* records nor the writes and calls in progress.
C25_GatedRoutes ==
    [][(/\ identityOps' # identityOps
        /\ response'.route \in DOMAIN RouteFunction
        /\ ~(/\ \E i \in DOMAIN identityRecords :
                    identityRecords[i] = response'.authenticated
              /\ \E k \in DOMAIN response'.authenticated.functions :
                    response'.authenticated.functions[k]
                       = RouteFunction[response'.route]))
          => /\ response'.status = 403
             /\ response'.read = {}
             /\ UNCHANGED <<identityRecords, authenticationRecords,
                            identityWrites, identityCalls>>]_vars

C25_Witness ==
    /\ response.route = "PATCH /identity/:identityId"
    /\ response.status = 403
    /\ response.authenticated # NoIdentity
    /\ "auth.identity.create" \in Range(response.authenticated.functions)

(***************************************************************************)
(* Properties of the session manager (continued)                           *)
(***************************************************************************)
\* C21: when cleanup() runs for a connection that was given up because its
\* agent has a live session, the connection is closed, no message was sent
\* on it, and the other sockets and the session records stay as they are.
C21_DuplicateIsClosed ==
    [][\A id \in duplicates :
          (id \in cleanups /\ id \notin cleanups' /\ down' = down) =>
             /\ id \notin openSockets'
             /\ sent'[id] = <<>>
             /\ openSockets' \ {id} = openSockets \ {id}
             /\ connectionRecords' = connectionRecords
             /\ connectionWrites' = connectionWrites]_vars

\* the agent has a session record with isAlive = true that a server whose
\* process has ended left behind
LeftBehind(a) ==
    \E i \in DOMAIN connectionRecords :
       /\ connectionRecords[i].clientId = a
       /\ connectionRecords[i].isAlive
       /\ down[connectionRecords[i].serverId] = "crashed"

\* C22: a connection attempt that an agent with a valid token makes to a
\* running server, while the store holds the live record of its session on a
\* server that has crashed, is eventually accepted (unless the agent closes
\* the connection or that server goes down as well).
C22_ReconnectAccepted ==
    \A n \in Connections :
       (\E c \in connects : /\ c.id = n /\ c.pc = "verify"
                             /\ c.cred \in Agents /\ LeftBehind(c.cred))
          ~> (n \in Accepted \/ n \notin openSockets \/ down[owner[n]] # "up")

\* C29: on every connection the first message the server sends is
\* connection.state accepted and the second is capability.report; an accepted
\* session whose socket is open was sent both, and no message is sent on a
\* connection that was not accepted (failed verification, or given up for a
\* live session).
C29_GreetingFirst ==
    \A n \in Connections :
       /\ Len(sent[n]) >= 1 => sent[n][1] = "connection.state accepted"
       /\ Len(sent[n]) >= 2 => sent[n][2] = "capability.report"
       /\ (n \in Accepted /\ n \in openSockets) => Len(sent[n]) >= 2
       /\ n \in rejected \cup duplicates => sent[n] = <<>>
       /\ sent[n] # <<>> => n \in Accepted

C29_Witness ==
    /\ \E n \in Connections : n \in Accepted /\ Len(sent[n]) = 3
    /\ \E n \in Connections :
          n \in duplicates /\ n \notin cleanups /\ sent[n] = <<>>

\* C30: a heartbeat tick, however many ticks went unanswered before it,
\* leaves the sockets, the session records, the writes in flight and the
\* tickers as they are; the open socket of an accepted session closes only
\* in a step in which the transport closes it (its close listener then
\* calls cleanup()).
C30_TicksNeverClose ==
    [][\A n \in Connections :
          /\ missed'[n] > missed[n] =>
                UNCHANGED <<openSockets, sockets, connectionRecords,
                            connectionWrites, heartbeats, cleanups>>
          /\ (n \in Accepted /\ n \in openSockets /\ n \notin openSockets') =>
                (n \notin cleanups /\ n \in cleanups' /\ missed' = missed)]_vars

C30_Witness ==
    \E n \in Connections :
       /\ missed[n] = MaxMissed
       /\ n \in openSockets /\ n \in heartbeats
       /\ \E i \in DOMAIN connectionRecords :
             connectionRecords[i].id = n /\ connectionRecords[i].open

(***************************************************************************)
(* Properties of the identity service (setIdentity, the middleware)        *)
(***************************************************************************)
\* C36: the update that a setIdentity call without options.allowSecurityEdit
\* prepares keeps the functions of the stored identity, whatever
\* details.functions holds.
C36_FunctionsNeedSecurityEdit ==
    \A c \in identityCalls :
       (c.op = "set" /\ c.via = "me" /\ c.pc \in {"writeAuth", "writeIdentity"})
          => c.update.functions = c.found.functions

(***************************************************************************)
(* Properties of the token service and the agent registry (records)        *)
(***************************************************************************)
\* C37: the token collection holds at most one verification record for each
\* subject.
C37_OneRecordPerSubject ==
    \A sub \in Subjects :
       Cardinality({i \in DOMAIN tokenCollection :
                       tokenCollection[i].subject = sub}) <= 1

\* C38: when the provisionClient and token.refresh operations were made one
\* after the other and nothing is pending, the tokenId of every stored agent
\* record is the id of the verification record stored for that agent.
C38_TokenIdIsCurrent ==
    (AgentQuiet /\ ~racing) =>
       \A i \in DOMAIN clientRecords, k \in DOMAIN tokenCollection :
          tokenCollection[k].subject = clientRecords[i].id
             => clientRecords[i].tokenId = tokenCollection[k].id

(***************************************************************************)
(* Properties of the lifecycle supervisor (the reporter timer)             *)
(***************************************************************************)
\* C39: whenever the state is STOPPED, no instance-reporter timer that this
\* server created is active.
C39_NoTimerWhenStopped == state = STOPPED => timers = {}

\* C40: once removeIdentity(I) has returned, the verification middleware
\* finds no identity for a token whose subject is I, and a request carrying
\* such a token is answered 403 on every /identity route.
C40_RemovedIsForbidden ==
    [][/\ \A id \in removed' : Authenticated(id)' = NoIdentity
       /\ (/\ identityOps' > identityOps
           /\ response'.route # "none"
           /\ response'.subject \in removed)
             => /\ response'.authenticated = NoIdentity
                /\ response'.status = 403]_vars

C40_Witness ==
    /\ response.subject \in removed
    /\ response.authenticated = NoIdentity
    /\ response.status = 403

\* C33: once a session that was accepted has closed and the calls and writes
\* of the provider have finished, its heartbeat interval is cleared and its
\* stored record has isAlive = false and open = false (the server process
\* still running).
C33_ClosedIsCleaned ==
    (connects = {} /\ cleanups = {} /\ connectionWrites = {})
       => \A id \in sockets \ openSockets :
             down[owner[id]] # "crashed"
                => /\ id \notin heartbeats
                   /\ \A i \in DOMAIN connectionRecords :
                         connectionRecords[i].id = id
                            => /\ ~connectionRecords[i].isAlive
                               /\ ~connectionRecords[i].open

\* C32: a send() call fails with 'No such connection.' exactly when no
\* record has the id, with 'Connection closed or client not live.' exactly
\* when the record it found is not alive or not open, and with 'does not
\* belong to this server' exactly when the record is alive and open and
\* carries another server's id; a call that fails writes nothing to any
\* socket.
C32_SendFailures ==
    [][sendResult' # sendResult =>
          LET r == sendResult'
              i == FindOne(connectionRecords, "id", r.id)
          IN  /\ r.reason = "No such connection." <=> i = 0
              /\ r.reason = "Connection closed or client not live."
                    <=> (i # 0 /\ (~connectionRecords[i].isAlive
                                    \/ ~connectionRecords[i].open))
              /\ r.reason = "Connection does not belong to this server."
                    <=> (/\ i # 0
                         /\ connectionRecords[i].isAlive
                         /\ connectionRecords[i].open
                         /\ connectionRecords[i].serverId # r.srv)
              /\ r.status = "failed" <=> r.reason # "none"
              /\ r.status = "failed" => sent' = sent]_vars

\* a call on the wrong server for a record that is also closed: the answer
\* is the one of the earlier check
C32_Witness ==
    /\ sendResult.reason = "Connection closed or client not live."
    /\ \E i \in DOMAIN connectionRecords :
          /\ connectionRecords[i].id = sendResult.id
          /\ ~connectionRecords[i].isAlive
          /\ connectionRecords[i].serverId # sendResult.srv

\* C31: after a frame that is not JSON, carries no type (the frame null
\* and a type that is no string included), names an unknown provider or an
\* unknown message, or whose handler throws, the session is still open and
\* its server still runs.
C31_FrameKeepsSession ==
    [][frames' = frames + 1 =>
          (lastFrame'.frame \in Ignored \cup Escaping \cup Throwing
              => /\ lastFrame'.id \in openSockets'
                 /\ down'[owner[lastFrame'.id]] = "up")]_vars

\* C34: when the socket of an accepted session closes, the state stored for
\* its agent is 'unknown' afterwards, unless the stored state begins with
\* 'stopped', which is kept.
C34_CloseSetsUnknown ==
    [][\A id \in sockets :
          (id \in openSockets /\ id \notin openSockets'
              /\ down[owner[id]] = "up" /\ down' = down)
             => clientState'[clientOf[id]] =
                   IF clientState[clientOf[id]] = "stopped by user"
                   THEN "stopped by user" ELSE "unknown"]_vars

\* C35: within one session the handlers write to the socket in the order in
\* which their frames were received.
C35_EffectsInFrameOrder ==
    \A i \in DOMAIN applied, j \in DOMAIN applied :
       (i < j /\ applied[i].id = applied[j].id) => applied[i].n < applied[j].n

====
